---- MODULE Spec2Model ----
(***************************************************************************)
(* A model of the radiomap geocoding tools:                                *)
(*   cleanup_duplicates.py          remove_duplicates, fix_inconsistent_states, main *)
(*   geocode_stations.py            LocationExtractor, MapBoxGeocoder, StationGeocoder *)
(*   validate_geocoding_results.py  validate_station_result, fix_geocoding_file, main *)
(* Strings are TLC strings (Len, SubSeq and \o work on them), so prefix,   *)
(* substring and lower-casing are computed, not assumed.                   *)
(***************************************************************************)
EXTENDS Integers, Sequences, FiniteSets, TLC

VARIABLES
    \* cleanup_duplicates.py main()
    cl_file,        \* the record collection stored in <geocoded_stations.json>
    cl_stations,    \* main()'s local `stations`
    cl_loaded,      \* history: what load_stations returned
    cl_deduped,     \* history: what remove_duplicates returned
    cl_backups,     \* the contents of the <filename>.backup.<time> files
    cl_pc,          \* position in main()
    \* geocode_stations.py MapBoxGeocoder
    g_cache,        \* self.cache: cache_key -> GeoResult
    g_api_calls,    \* self.api_calls
    g_last_reset,   \* self.last_reset
    g_clock,        \* time.time(), in seconds
    g_requests,     \* history: the requests.get calls issued, in order
    g_last,         \* history: the last geocode call, its response and result
    \* geocode_stations.py LocationExtractor.extract_locations, on its own
    e_in,           \* the station's fields and what the tier extractors returned
    e_out,          \* the list extract_locations returned
    e_pc,
    \* geocode_stations.py StationGeocoder
    r_files,        \* the progress file, the output file and the reprocess file on disk
    r_reprocess,    \* whether self.reprocess_file is set (--reprocess)
    r_upstream,     \* what the Radio Browser API lists as lacking coordinates
    r_processed,    \* self.processed_uuids
    r_results,      \* self.results
    r_run,          \* run()'s locals: stations, lookup, i, counters, position
    r_station,      \* geocode_station's locals: locations, k, result
    r_hist,         \* history of the run, for the properties
    \* validate_geocoding_results.py main() and fix_geocoding_file()
    v_file,         \* the record collection stored in the json_file argument
    v_args,         \* the command line: mode, --mapbox-token, the answer typed
    v_stations,     \* the local `stations`
    v_problematic,  \* the local `problematic` / what find_problematic_results returned
    v_i,            \* 1 + the loop variable `i` of the fix loop
    v_backups,      \* the contents of the <filename>.backup.<time> files
    v_hist,         \* history: what was loaded, the positions rewritten
    v_pc,           \* position in main() and fix_geocoding_file()
    \* geocode_stations.py LocationExtractor: the scoring, on its own
    p_word,         \* the word passed to _score_place_likelihood
    p_words,        \* cleaned.split() in extract_potential_places
    p_score,        \* what _score_place_likelihood returned
    p_places,       \* what extract_potential_places returned
    p_pc

cl_vars == <<cl_file, cl_stations, cl_loaded, cl_deduped, cl_backups, cl_pc>>
g_vars == <<g_cache, g_api_calls, g_last_reset, g_clock, g_requests, g_last>>

e_vars == <<e_in, e_out, e_pc>>

r_vars == <<r_files, r_reprocess, r_upstream, r_processed, r_results, r_run,
            r_station, r_hist>>

v_vars == <<v_file, v_args, v_stations, v_problematic, v_i, v_backups, v_hist, v_pc>>

p_vars == <<p_word, p_words, p_score, p_places, p_pc>>

vars == <<cl_vars, g_vars, e_vars, r_vars, v_vars, p_vars>>

\* What each tool leaves alone.
non_cl_vars == <<g_vars, e_vars, r_vars, v_vars, p_vars>>
non_g_vars == <<cl_vars, e_vars, r_vars, v_vars, p_vars>>
non_e_vars == <<cl_vars, g_vars, r_vars, v_vars, p_vars>>
non_r_vars == <<cl_vars, e_vars, v_vars, p_vars>>
non_v_vars == <<cl_vars, g_vars, e_vars, r_vars, p_vars>>
non_p_vars == <<cl_vars, g_vars, e_vars, r_vars, v_vars>>

(***************************************************************************)
(* Generic helpers                                                         *)
(***************************************************************************)
\* Python's None / JSON null, for the string-valued and coordinate fields.
NULL == "null"
\* A key that is missing from a dict (station.get(key, default) returns default).
ABSENT == "absent"
\* A JSON number where the code expects a string.
NUMBER == "number"
\* A missing 'timestamp' key.
NoTimestamp == -1

Range(s) == {s[i] : i \in DOMAIN s}

\* str.startswith
StartsWith(s, p) == Len(s) >= Len(p) /\ SubSeq(s, 1, Len(p)) = p

\* `needle in hay` for strings
Contains(hay, needle) ==
    \E i \in 1..(Len(hay) - Len(needle) + 1) : SubSeq(hay, i, i + Len(needle) - 1) = needle

SeqsUpTo(S, n) == UNION {[1..k -> S] : k \in 0..n}

\* str.lower() on the ASCII letters (the model's strings are ASCII).
LowerChar(c) ==
    CASE c = "A" -> "a" [] c = "B" -> "b" [] c = "C" -> "c" [] c = "D" -> "d"
      [] c = "E" -> "e" [] c = "F" -> "f" [] c = "G" -> "g" [] c = "H" -> "h"
      [] c = "I" -> "i" [] c = "J" -> "j" [] c = "K" -> "k" [] c = "L" -> "l"
      [] c = "M" -> "m" [] c = "N" -> "n" [] c = "O" -> "o" [] c = "P" -> "p"
      [] c = "Q" -> "q" [] c = "R" -> "r" [] c = "S" -> "s" [] c = "T" -> "t"
      [] c = "U" -> "u" [] c = "V" -> "v" [] c = "W" -> "w" [] c = "X" -> "x"
      [] c = "Y" -> "y" [] c = "Z" -> "z" [] OTHER -> c

RECURSIVE Lower(_)
Lower(s) ==
    IF s = "" THEN ""
    ELSE LowerChar(SubSeq(s, 1, 1)) \o Lower(SubSeq(s, 2, Len(s)))

\* str.strip() (blanks are the only whitespace of the model's strings)
RECURSIVE Strip(_)
Strip(s) ==
    IF s = "" THEN ""
    ELSE IF SubSeq(s, 1, 1) = " " THEN Strip(SubSeq(s, 2, Len(s)))
    ELSE IF SubSeq(s, Len(s), Len(s)) = " " THEN Strip(SubSeq(s, 1, Len(s) - 1))
    ELSE s

\* s.split(',')[-1]: what follows the last comma, the whole string without one
LastSegment(s) ==
    LET commas == {i \in 1..Len(s) : SubSeq(s, i, i) = ","} IN
    IF commas = {} THEN s
    ELSE LET last == CHOOSE i \in commas : \A j \in commas : j <= i
         IN SubSeq(s, last + 1, Len(s))

(***************************************************************************)
(* GeocodedRecord: the dict written by geocode_station (geocode_stations.py *)
(* 616-632) and rewritten by the repair passes.                            *)
(***************************************************************************)
SENTINEL == "NEEDS_REGEOCODING:"

Record(uuid, name, ts, flag, loc, place, lat, lon) ==
    [uuid |-> uuid, name |-> name, country |-> "Germany", state |-> "",
     extracted_location |-> loc, location_type |-> "city", priority |-> 8,
     latitude |-> lat, longitude |-> lon, place_name |-> place,
     mapbox_place_type |-> IF lat = NULL THEN NULL ELSE "place",
     confidence |-> IF lat = NULL THEN NULL ELSE "high",
     method |-> IF lat = NULL THEN "pending_regeocoding" ELSE "mapbox",
     timestamp |-> ts, needs_regeocoding |-> flag]

\* station.get('needs_regeocoding', False), as a truth value
needs_regeocoding_of(station) == station.needs_regeocoding = "true"

\* station.get('timestamp', 0)
timestamp_of(station) ==
    IF station.timestamp = NoTimestamp THEN 0 ELSE station.timestamp

\* station.get('place_name', ''): a missing key reads as the empty string
place_name_of(station) ==
    IF station.place_name = ABSENT THEN "" ELSE station.place_name

\* The two forms of the consistency invariant (spec section 3).
IsSettled(r) ==
    /\ r.latitude # NULL /\ r.longitude # NULL
    /\ r.needs_regeocoding # "true"

IsPending(r) ==
    /\ r.latitude = NULL /\ r.longitude = NULL
    /\ r.needs_regeocoding = "true"
    /\ r.place_name \notin {NULL, ABSENT}
    /\ StartsWith(r.place_name, SENTINEL)

(***************************************************************************)
(* cleanup_duplicates.py                                                   *)
(***************************************************************************)
\* Index of the entry of the dict (kept as a sequence in insertion order) whose
\* key is uuid, 0 when there is none.
IndexOfUuid(acc, uuid) ==
    IF \E j \in DOMAIN acc : acc[j].uuid = uuid
    THEN CHOOSE j \in DOMAIN acc : acc[j].uuid = uuid
    ELSE 0

\* One iteration of the loop of remove_duplicates, `>=` written for `>`.
remove_duplicates_step_ge(acc, station) ==
    LET j == IndexOfUuid(acc, station.uuid) IN
    IF station.uuid = "" THEN acc
    ELSE IF j # 0
         THEN IF timestamp_of(station) >= timestamp_of(acc[j])
              THEN [acc EXCEPT ![j] = station]
              ELSE acc
         ELSE Append(acc, station)

\* One iteration of the loop of remove_duplicates (lines 43-61): acc is
\* uuid_to_station, a dict, whose values() come in first-insertion order.
remove_duplicates_step(acc, station) ==
    LET j == IndexOfUuid(acc, station.uuid) IN
    IF station.uuid = "" THEN acc                       \* if not uuid: continue
    ELSE IF j # 0
         THEN IF timestamp_of(station) > timestamp_of(acc[j])
              THEN [acc EXCEPT ![j] = station]
              ELSE acc
         ELSE Append(acc, station)

RECURSIVE remove_duplicates_from(_, _, _)
remove_duplicates_from(stations, k, acc) ==
    IF k > Len(stations) THEN acc
    ELSE remove_duplicates_from(stations, k + 1, remove_duplicates_step(acc, stations[k]))

\* remove_duplicates with the loop of line 43 starting at the second station.
remove_duplicates_skip_first(stations) == remove_duplicates_from(stations, 2, <<>>)

remove_duplicates(stations) == remove_duplicates_from(stations, 1, <<>>)
\* A repair that does not look at the flag: every record with a place name
\* that lacks the sentinel is cleared.
fix_station_ignoring_flag(station) ==
    IF /\ place_name_of(station) \notin {"", NULL}
       /\ ~StartsWith(place_name_of(station), SENTINEL)
    THEN [station EXCEPT
            !.latitude = NULL,
            !.longitude = NULL,
            !.place_name = SENTINEL \o " " \o
                (IF station.extracted_location = ABSENT THEN ""
                 ELSE station.extracted_location),
            !.mapbox_place_type = NULL,
            !.confidence = NULL,
            !.method = "pending_regeocoding"]
    ELSE station

\* The body of the loop of fix_inconsistent_states (lines 77-90).
fix_station(station) ==
    IF /\ needs_regeocoding_of(station)
       /\ place_name_of(station) \notin {"", NULL}           \* `and place_name`
       /\ ~StartsWith(place_name_of(station), SENTINEL)
    THEN [station EXCEPT
            !.latitude = NULL,
            !.longitude = NULL,
            !.place_name = SENTINEL \o " " \o
                (IF station.extracted_location = ABSENT THEN ""
                 ELSE station.extracted_location),
            !.mapbox_place_type = NULL,
            !.confidence = NULL,
            !.method = "pending_regeocoding"]
    ELSE station

fix_inconsistent_states(stations) ==
    [k \in DOMAIN stations |-> fix_station(stations[k])]

(***************************************************************************)
(* geocode_stations.py LocationExtractor                                   *)
(***************************************************************************)
\* A (location, loc_type, priority) tuple of extract_locations.
Location(loc, loc_type, priority) ==
    [location |-> loc, loc_type |-> loc_type, priority |-> priority]

\* self.country_aliases.get(country.lower(), country) (lines 103-108, 273),
\* the ASCII keys.
country_alias_of(country) ==
    LET c == Lower(country) IN
    CASE c = "usa" -> "united states"
      [] c = "uk" -> "united kingdom"
      [] c = "uae" -> "united arab emirates"
      [] c = "russia" -> "russian federation"
      [] c = "deutschland" -> "germany"
      [] c = "brasil" -> "brazil"
      [] OTHER -> country

\* Lines 250-274: the candidates of all tiers, in the order they are appended.
all_locations(bracket_locations, keyword_locations, state, potential_places, country) ==
    [k \in DOMAIN bracket_locations |-> Location(bracket_locations[k], "extracted", 10)]
    \o [k \in DOMAIN keyword_locations |->
            Location(keyword_locations[k][1], keyword_locations[k][2], 8)]
    \o (IF state # "" /\ Len(state) > 2 THEN <<Location(state, "region", 6)>> ELSE <<>>)
    \o [k \in DOMAIN potential_places |-> Location(potential_places[k], "potential", 4)]
    \o (IF country # "" THEN <<Location(country_alias_of(country), "country", 2)>> ELSE <<>>)

\* Position in the dict unique_locations (kept in insertion order) of the
\* entry whose key is key, 0 when there is none.
IndexOfKey(unique, key) ==
    IF \E j \in DOMAIN unique : Lower(unique[j].location) = key
    THEN CHOOSE j \in DOMAIN unique : Lower(unique[j].location) = key
    ELSE 0

\* The body of the loop of lines 278-281 with `>` written for `<`.
unique_step_keep_lower(unique, entry) ==
    LET j == IndexOfKey(unique, Lower(entry.location)) IN
    IF j = 0 THEN Append(unique, entry)
    ELSE IF unique[j].priority > entry.priority THEN [unique EXCEPT ![j] = entry]
    ELSE unique

\* The body of the loop of lines 278-281.
unique_step(unique, entry) ==
    LET j == IndexOfKey(unique, Lower(entry.location)) IN
    IF j = 0 THEN Append(unique, entry)
    ELSE IF unique[j].priority < entry.priority THEN [unique EXCEPT ![j] = entry]
    ELSE unique

RECURSIVE unique_locations_from(_, _, _)
unique_locations_from(locations, k, unique) ==
    IF k > Len(locations) THEN unique
    ELSE unique_locations_from(locations, k + 1, unique_step(unique, locations[k]))

\* sorted(values, key=lambda x: x[2], reverse=True): stable, the entries of
\* the largest priority first, in their order in values.
RECURSIVE sorted_by_priority(_)
sorted_by_priority(values) ==
    IF values = <<>> THEN <<>>
    ELSE LET top == CHOOSE p \in {values[k].priority : k \in DOMAIN values} :
                        \A k \in DOMAIN values : values[k].priority <= p
             IsTop(x) == x.priority = top
             IsLower(x) == x.priority # top
         IN SelectSeq(values, IsTop) \o sorted_by_priority(SelectSeq(values, IsLower))

\* Lines 276-283 of extract_locations, after the tiers have been collected.
extract_locations_merge(bracket_locations, keyword_locations, state, potential_places, country) ==
    sorted_by_priority(
        unique_locations_from(
            all_locations(bracket_locations, keyword_locations, state,
                          potential_places, country),
            1, <<>>))

(***************************************************************************)
(* geocode_stations.py LocationExtractor: the scoring of the words of a    *)
(* name.  A word is the sequence of its characters; an ASCII character is  *)
(* a one-character string, the lower-case Cyrillic letter <x> is "cy:<x>"  *)
(* and its upper case "CY:<x>", which a string of the model cannot hold.   *)
(***************************************************************************)
Chars(s) == [i \in 1..Len(s) |-> SubSeq(s, i, i)]

LatinLetters ==
    { "a", "b", "c", "d", "e", "f", "g", "h", "i", "j", "k", "l", "m", "n", "o", "p",
      "q", "r", "s", "t", "u", "v", "w", "x", "y", "z",
      "A", "B", "C", "D", "E", "F", "G", "H", "I", "J", "K", "L", "M", "N", "O", "P",
      "Q", "R", "S", "T", "U", "V", "W", "X", "Y", "Z" }

DigitChars == {"0", "1", "2", "3", "4", "5", "6", "7", "8", "9"}

IsCyrillicUpper(c) == Len(c) > 3 /\ SubSeq(c, 1, 3) = "CY:"
IsCyrillicLower(c) == Len(c) > 3 /\ SubSeq(c, 1, 3) = "cy:"

\* str.isupper() of one character
char_isupper(c) == (c \in LatinLetters /\ LowerChar(c) # c) \/ IsCyrillicUpper(c)

\* str.lower() of a word
word_lower(word) ==
    [i \in DOMAIN word |->
        IF IsCyrillicUpper(word[i]) THEN "cy:" \o SubSeq(word[i], 4, Len(word[i]))
        ELSE LowerChar(word[i])]

\* The character classes of the two regular expressions of lines 228-230.
cyrillic_vowels ==
    { "cy:a", "cy:e", "cy:i", "cy:o", "cy:u", "cy:y",
      "cy:eh", "cy:yu", "cy:ya" }

latin_vowels == {"a", "e", "i", "o", "u"}

\* re.search('[v].*[v]', word): two characters of the class, the second after
\* the first.
has_two_of(word, class) ==
    \E i, j \in DOMAIN word : i < j /\ word[i] \in class /\ word[j] \in class

\* str.endswith(suffix)
ends_with(word, suffix) ==
    /\ Len(word) >= Len(suffix)
    /\ SubSeq(word, Len(word) - Len(suffix) + 1, Len(word)) = suffix

\* The tuple of line 232.
place_suffixes ==
    { <<"cy:o", "cy:v", "cy:o">>, <<"cy:i", "cy:n", "cy:o">>,
      <<"cy:s", "cy:k">>, <<"cy:g", "cy:r", "cy:a", "cy:d">>,
      <<"cy:b", "cy:u", "cy:r", "cy:g">>, Chars("town"), Chars("burg"),
      Chars("ville") }

\* The list of line 236.
common_words ==
    { Chars("the"), Chars("and"), Chars("or"), Chars("of"), Chars("in"),
      Chars("on"), Chars("at"), Chars("to"), Chars("for"), <<"cy:s">>,
      <<"cy:i">>, <<"cy:n", "cy:a">>, <<"cy:v">>, <<"cy:p", "cy:o">> }

\* The list of line 240.
adjectives ==
    { Chars("new"), Chars("old"), Chars("big"), Chars("hot"), Chars("top"),
      <<"cy:p", "cy:e", "cy:r", "cy:v", "cy:y", "cy:j">>,
      <<"cy:n", "cy:o", "cy:v", "cy:y", "cy:j">>,
      <<"cy:s", "cy:t", "cy:a", "cy:r", "cy:y", "cy:j">> }

\* self.non_geographic_words (lines 82-100)
non_geographic_words ==
    { <<"cy:p", "cy:i", "cy:r", "cy:a", "cy:m", "cy:i", "cy:d", "cy:a">>,
      <<"cy:r", "cy:a", "cy:d", "cy:i", "cy:o">>,
      <<"cy:p", "cy:l", "cy:yu", "cy:s">>,
      <<"cy:e", "cy:v", "cy:r", "cy:o", "cy:p", "cy:a">>,
      <<"cy:r", "cy:u", "cy:s", "cy:s", "cy:k", "cy:o", "cy:e">>,
      <<"cy:a", "cy:v", "cy:t", "cy:o">>, <<"cy:h", "cy:i", "cy:t">>,
      <<"cy:sh", "cy:a", "cy:n", "cy:s", "cy:o", "cy:n">>,
      <<"cy:r", "cy:e", "cy:t", "cy:r", "cy:o">>,
      <<"cy:k", "cy:l", "cy:a", "cy:s", "cy:s", "cy:i", "cy:k">>,
      <<"cy:m", "cy:u", "cy:z", "cy:y", "cy:k", "cy:a">>,
      <<"cy:n", "cy:o", "cy:v", "cy:o", "cy:s", "cy:t", "cy:i">>,
      <<"cy:s", "cy:p", "cy:o", "cy:r", "cy:t">>,
      <<"cy:eh", "cy:n", "cy:e", "cy:r", "cy:g", "cy:i", "cy:ya">>,
      <<"cy:m", "cy:a", "cy:k", "cy:s", "cy:i", "cy:m", "cy:u", "cy:m">>,
      <<"cy:l", "cy:yu", "cy:k", "cy:s">>, <<"cy:eh", "cy:l", "cy:i", "cy:t">>,
      <<"cy:l", "cy:a", "cy:j", "cy:t">>, <<"cy:g", "cy:o", "cy:l", "cy:d">>,
      <<"cy:d", "cy:zh", "cy:a", "cy:z">>, <<"cy:b", "cy:l", "cy:yu", "cy:z">>,
      <<"cy:r", "cy:o", "cy:k">>, <<"cy:p", "cy:o", "cy:p">>,
      <<"cy:d", "cy:a", "cy:ch", "cy:a">>, <<"cy:yu", "cy:m", "cy:o", "cy:r">>,
      <<"cy:s", "cy:m", "cy:e", "cy:h">>,
      <<"cy:yu", "cy:n", "cy:o", "cy:s", "cy:t", "cy:soft">>,
      <<"cy:d", "cy:o", "cy:r", "cy:o", "cy:zh", "cy:n", "cy:o", "cy:e">>,
      <<"cy:t", "cy:a", "cy:k", "cy:s", "cy:i">>,
      <<"cy:b", "cy:i", "cy:z", "cy:n", "cy:e", "cy:s">>,
      <<"cy:eh", "cy:h", "cy:o">>, <<"cy:g", "cy:o", "cy:l", "cy:o", "cy:s">>,
      <<"cy:v", "cy:o", "cy:l", "cy:n", "cy:a">>,
      <<"cy:z", "cy:v", "cy:e", "cy:z", "cy:d", "cy:a">>,
      <<"cy:k", "cy:o", "cy:m", "cy:e", "cy:t", "cy:a">>,
      <<"cy:p", "cy:l", "cy:a", "cy:n", "cy:e", "cy:t", "cy:a">>,
      <<"cy:o", "cy:r", "cy:b", "cy:i", "cy:t", "cy:a">>,
      <<"cy:k", "cy:o", "cy:s", "cy:m", "cy:o", "cy:s">>,
      <<"cy:m", "cy:i", "cy:r">>, Chars("pyramid"), Chars("plus"),
      Chars("europe"), Chars("auto"), Chars("hit"), Chars("retro"),
      Chars("classic"), Chars("music"), Chars("news"), Chars("sport"),
      Chars("energy"), Chars("maximum"), Chars("luxury"), Chars("elite"),
      Chars("light"), Chars("gold"), Chars("jazz"), Chars("blues"),
      Chars("rock"), Chars("pop"), Chars("humor"), Chars("laugh"),
      Chars("youth"), Chars("business"), Chars("echo"), Chars("voice"),
      Chars("wave"), Chars("star"), Chars("comet"), Chars("planet"),
      Chars("orbit"), Chars("space"), Chars("world"), Chars("super"),
      Chars("mega"), Chars("ultra"), Chars("power"), Chars("force"),
      Chars("magic"), Chars("diamond"), Chars("crystal"), Chars("rainbow"),
      Chars("sunshine"), Chars("moonlight"), Chars("fire"), Chars("ice"),
      Chars("storm"), Chars("first"), Chars("best"), Chars("top"),
      Chars("new"), Chars("old"), Chars("big"), Chars("small"), Chars("hot"),
      Chars("cool"), Chars("fresh"), Chars("live"), Chars("online"),
      Chars("digital"), Chars("network"), Chars("central"), Chars("main") }

\* self.radio_keywords (lines 76-79), the entries in Latin and Cyrillic
\* letters without diacritics; no word of these letters contains another entry.
radio_keywords ==
    { Chars("radio"), Chars("fm"), Chars("am"),
      <<"cy:r", "cy:a", "cy:d", "cy:i", "cy:o">>, Chars("station"),
      <<"cy:s", "cy:t", "cy:a", "cy:n", "cy:c", "cy:i", "cy:ya">>,
      Chars("radiostacja"), Chars("emisora") }

\* _score_place_likelihood (lines 218-243)
_score_place_likelihood(word) ==
    LET lower == word_lower(word) IN
    10
    + (IF Len(word) >= 6 THEN 3 ELSE 0)
    + (IF char_isupper(word[1]) THEN 2 ELSE 0)
    + (IF has_two_of(lower, cyrillic_vowels) THEN 2 ELSE 0)
    + (IF has_two_of(lower, latin_vowels) THEN 2 ELSE 0)
    + (IF \E suffix \in place_suffixes : ends_with(lower, suffix) THEN 5 ELSE 0)
    - (IF lower \in common_words THEN 10 ELSE 0)
    - (IF Len(word) = 3 THEN 2 ELSE 0)
    - (IF lower \in adjectives THEN 5 ELSE 0)

\* The test of lines 198-202: the word is skipped before it is scored.
skipped_word(word) ==
    \/ Len(word) <= 2
    \/ \A i \in DOMAIN word : word[i] \in DigitChars                  \* isdigit()
    \/ \E kw \in radio_keywords : Contains(word, kw)
    \/ \E i \in DOMAIN word :                                         \* the re.match
           ~(word[i] \in LatinLetters \/ IsCyrillicLower(word[i])
                \/ IsCyrillicUpper(word[i]))
    \/ word_lower(word) \in non_geographic_words                      \* lines 205-206

\* Lines 195-211: the (word, score) pairs appended, in the order of the words.
RECURSIVE scored_places_from(_, _, _)
scored_places_from(words, k, potential_places) ==
    IF k > Len(words) THEN potential_places
    ELSE scored_places_from(words, k + 1,
            IF ~skipped_word(words[k]) /\ _score_place_likelihood(words[k]) > 0
            THEN Append(potential_places,
                        [word |-> words[k], score |-> _score_place_likelihood(words[k])])
            ELSE potential_places)

\* potential_places.sort(key=lambda x: x[1], reverse=True) (line 214): stable,
\* the largest scores first.
RECURSIVE sorted_by_score(_)
sorted_by_score(pairs) ==
    IF pairs = <<>> THEN <<>>
    ELSE LET top == CHOOSE n \in {pairs[k].score : k \in DOMAIN pairs} :
                        \A k \in DOMAIN pairs : pairs[k].score <= n
             IsTop(x) == x.score = top
             IsLower(x) == x.score # top
         IN SelectSeq(pairs, IsTop) \o sorted_by_score(SelectSeq(pairs, IsLower))

\* extract_potential_places (lines 191-216) from `words = cleaned.split()` on.
potential_places_of(words) ==
    LET sorted == sorted_by_score(scored_places_from(words, 1, <<>>))
    IN [k \in DOMAIN sorted |-> sorted[k].word]

(***************************************************************************)
(* geocode_stations.py MapBoxGeocoder                                      *)
(***************************************************************************)
\* self.max_calls_per_minute (300 in __init__, line 294), scaled down.
MaxCallsPerMinute == 2
\* The window of _rate_limit_check, in seconds.
WindowSeconds == 60

\* `return None`
NoResult == [none |-> TRUE]

GeoResult(lat, lng, place_name, place_type, confidence) ==
    [latitude |-> lat, longitude |-> lng, place_name |-> place_name,
     place_type |-> place_type, confidence |-> confidence, method |-> "mapbox"]

\* _normalize_country_name
_normalize_country_name(country) ==
    LET normalized == Strip(Lower(country)) IN
    CASE normalized = "the russian federation" -> "russia"
      [] normalized = "russian federation" -> "russia"
      [] normalized = "united states" -> "united states"
      [] normalized = "usa" -> "united states"
      [] normalized = "united kingdom" -> "united kingdom"
      [] normalized = "uk" -> "united kingdom"
      [] normalized = "great britain" -> "united kingdom"
      [] OTHER -> normalized

\* _get_country_variations. The table's non-ASCII spellings cannot be written
\* here; no ASCII label contains one, so they never decide a match of the
\* model's labels.
_get_country_variations(country) ==
    LET c == Lower(country) IN
    CASE c = "russia" -> {"russia", "russian federation", "russian"}
      [] c = "united states" -> {"united states", "usa", "america", "us"}
      [] c = "united kingdom" -> {"united kingdom", "uk", "great britain", "britain", "england"}
      [] c = "germany" -> {"germany", "deutschland", "german"}
      [] c = "france" -> {"france", "french"}
      [] c = "spain" -> {"spain", "spanish"}
      [] c = "italy" -> {"italy", "italian", "italia"}
      [] c = "brazil" -> {"brazil", "brazilian", "brasil"}
      [] c = "mexico" -> {"mexico", "mexican"}
      [] c = "canada" -> {"canada", "canadian"}
      [] c = "australia" -> {"australia", "australian"}
      [] c = "china" -> {"china", "chinese"}
      [] c = "japan" -> {"japan", "japanese"}
      [] c = "india" -> {"india", "indian"}
      [] c = "netherlands" -> {"netherlands", "dutch", "holland"}
      [] c = "sweden" -> {"sweden", "swedish", "sverige"}
      [] c = "norway" -> {"norway", "norwegian", "norge"}
      [] c = "denmark" -> {"denmark", "danish", "danmark"}
      [] c = "finland" -> {"finland", "finnish", "suomi"}
      [] c = "poland" -> {"poland", "polish", "polska"}
      [] c = "romania" -> {"romania", "romanian"}
      [] c = "greece" -> {"greece", "greek"}
      [] c = "turkey" -> {"turkey", "turkish"}
      [] c = "south africa" -> {"south africa", "south african"}
      [] c = "argentina" -> {"argentina", "argentinian"}
      [] c = "chile" -> {"chile", "chilean"}
      [] c = "colombia" -> {"colombia", "colombian"}
      [] c = "venezuela" -> {"venezuela", "venezuelan"}
      [] c = "peru" -> {"peru", "peruvian"}
      [] OTHER -> {c}

\* actual_country of lines 366-367: the last comma-separated part of the
\* label, stripped and lower-cased.
actual_country_of(place_name) == Lower(Strip(LastSegment(place_name)))

\* The country validation of geocode (lines 359-373): TRUE without a hint,
\* else whether some variation is a substring of the actual country.
country_match_of(place_name, country) ==
    IF country = "" THEN TRUE
    ELSE \E var \in _get_country_variations(_normalize_country_name(country)) :
            Contains(actual_country_of(place_name), var)

\* Lines 380-385.
confidence_of(feature_types, country_match) ==
    IF "place" \in Range(feature_types) \/ "locality" \in Range(feature_types)
    THEN (IF country_match THEN "high" ELSE "medium")
    ELSE IF "region" \in Range(feature_types)
    THEN (IF country_match THEN "medium" ELSE "low")
    ELSE "low"

\* `lng, lat = feature['center']` (line 354) raises unless center is a pair.
IsMalformed(feature) == Len(feature.center) # 2

\* Lines 387-394.
result_of(feature, country_match) ==
    GeoResult(feature.center[2], feature.center[1], feature.place_name,
              IF feature.place_type # <<>> THEN feature.place_type[1] ELSE "unknown",
              confidence_of(feature.place_type, country_match))

\* The loop over data['features'] returning the first feature that passes the
\* country validation, whatever its confidence.
RECURSIVE scan_features_first_kept(_, _, _, _)
scan_features_first_kept(features, k, best, country) ==
    IF k > Len(features) THEN [raised |-> FALSE, best |-> best]
    ELSE IF IsMalformed(features[k]) THEN [raised |-> TRUE, best |-> best]
    ELSE IF country_match_of(features[k].place_name, country)
         THEN [raised |-> FALSE, best |-> result_of(features[k], TRUE)]
         ELSE scan_features_first_kept(features, k + 1, best, country)

\* The loop over data['features'] (lines 353-400) from feature k on, with
\* best_result = best. Yields [raised, best]: raised when a feature made the
\* loop raise, which the except clause of line 407 turns into `return None`.
RECURSIVE scan_features(_, _, _, _)
scan_features(features, k, best, country) ==
    IF k > Len(features) THEN [raised |-> FALSE, best |-> best]
    ELSE LET feature == features[k] IN
         IF IsMalformed(feature) THEN [raised |-> TRUE, best |-> best]
         ELSE LET country_match == country_match_of(feature.place_name, country)
                  result == result_of(feature, country_match)
                  ideal == country_match /\ result.confidence = "high"
              IN IF ~country_match
                 THEN scan_features(features, k + 1, best, country)     \* continue
                 ELSE IF best = NoResult \/ ideal
                      THEN IF ideal
                           THEN [raised |-> FALSE, best |-> result]     \* break
                           ELSE scan_features(features, k + 1, result, country)
                      ELSE scan_features(features, k + 1, best, country)

\* A response of the service: ok is FALSE when requests.get, raise_for_status
\* or response.json() raised (network error, non-2xx status, a body that is
\* not JSON); features is data['features'].
Response(ok, features) == [ok |-> ok, features |-> features]

\* What geocode returns for a response (lines 344-410).
select_result(response, country) ==
    IF ~response.ok THEN NoResult
    ELSE IF response.features = <<>> THEN NoResult
    ELSE LET scan == scan_features(response.features, 1, NoResult, country)
         IN IF scan.raised THEN NoResult ELSE scan.best

\* cache_key of line 314 without the lower() of the text.
cache_key_as_typed(location, country, place_type) ==
    location \o "_" \o country \o "_" \o place_type

\* cache_key of line 314
cache_key_of(location, country, place_type) ==
    Lower(location) \o "_" \o country \o "_" \o place_type

\* query of lines 322-324
query_of(location, country) ==
    LET query == Strip(location) IN
    IF country # "" /\ ~Contains(Lower(query), Lower(country))
    THEN query \o ", " \o country
    ELSE query

\* types of lines 327-333
types_of(place_type) ==
    CASE place_type = "city" -> "place,locality"
      [] place_type = "village" -> "locality,neighborhood,place"
      [] place_type = "region" -> "region,place"
      [] place_type = "country" -> "country"
      [] place_type = "potential" -> "place,locality,region"
      [] OTHER -> "place,locality,region,country"

\* _rate_limit_check with `>` written for `>=` in the test of the ceiling.
_rate_limit_check_gt(api_calls, last_reset, now, over) ==
    LET reset == now - last_reset > WindowSeconds
        calls1 == IF reset THEN 0 ELSE api_calls
        last1 == IF reset THEN now ELSE last_reset
        sleep_time == WindowSeconds - (now - last1)
    IN IF calls1 > MaxCallsPerMinute /\ sleep_time > 0
       THEN [api_calls |-> 0, last_reset |-> now + sleep_time + over,
             clock |-> now + sleep_time + over, slept |-> TRUE]
       ELSE [api_calls |-> calls1, last_reset |-> last1, clock |-> now, slept |-> FALSE]

\* _rate_limit_check (lines 296-309) called at time now; time.sleep returns
\* `over` seconds late. Yields the counter, the window start and the time at
\* which it returns.
_rate_limit_check(api_calls, last_reset, now, over) ==
    LET reset == now - last_reset > WindowSeconds
        calls1 == IF reset THEN 0 ELSE api_calls
        last1 == IF reset THEN now ELSE last_reset
        sleep_time == WindowSeconds - (now - last1)
    IN IF calls1 >= MaxCallsPerMinute /\ sleep_time > 0
       THEN [api_calls |-> 0, last_reset |-> now + sleep_time + over,
             clock |-> now + sleep_time + over, slept |-> TRUE]
       ELSE [api_calls |-> calls1, last_reset |-> last1, clock |-> now, slept |-> FALSE]

\* MapBoxGeocoder.__init__ at time now
GeocoderInitAt(now) ==
    /\ g_cache = <<>>
    /\ g_api_calls = 0
    /\ g_last_reset = now
    /\ g_clock = now
    /\ g_requests = <<>>
    /\ g_last = [called |-> FALSE]

GeocoderInit == GeocoderInitAt(0)

\* A resolver that remembers every answer, the failures too.
cache_after_any_answer(cache, cache_key, result) ==
    [k \in DOMAIN cache \cup {cache_key} |-> IF k = cache_key THEN result ELSE cache[k]]

\* geocode, lines 402-405: the cache after a request; only a result is stored
cache_after(cache, cache_key, result) ==
    IF result = NoResult THEN cache
    ELSE [k \in DOMAIN cache \cup {cache_key} |-> IF k = cache_key THEN result ELSE cache[k]]

\* geocode(location, country, place_type) (lines 311-410), the service
\* answering `response`.
Geocode(location, country, place_type, response, over) ==
    LET cache_key == cache_key_of(location, country, place_type) IN
    IF cache_key \in DOMAIN g_cache
    THEN /\ g_last' = [called |-> TRUE, location |-> location, country |-> country,
                       place_type |-> place_type, cache_hit |-> TRUE,
                       query |-> "", types |-> "",
                       response |-> Response(FALSE, <<>>), slept |-> FALSE,
                       result |-> g_cache[cache_key]]
         /\ UNCHANGED <<g_cache, g_api_calls, g_last_reset, g_clock, g_requests>>
    ELSE LET rl == _rate_limit_check(g_api_calls, g_last_reset, g_clock, over)
             result == select_result(response, country)
         IN /\ g_api_calls' = rl.api_calls + 1
            /\ g_last_reset' = rl.last_reset
            /\ g_clock' = rl.clock
            /\ g_requests' = Append(g_requests,
                   [at |-> rl.clock, window |-> rl.last_reset,
                    location |-> location, country |-> country,
                    place_type |-> place_type, result |-> result])
            /\ g_cache' = cache_after(g_cache, cache_key, result)
            /\ g_last' = [called |-> TRUE, location |-> location, country |-> country,
                          place_type |-> place_type, cache_hit |-> FALSE,
                          query |-> query_of(location, country),
                          types |-> types_of(place_type),
                          response |-> response, slept |-> rl.slept,
                          result |-> result]

(***************************************************************************)
(* geocode_stations.py StationGeocoder                                     *)
(***************************************************************************)
\* `(i + 1) % 100 == 0` (line 685): the checkpoint interval, scaled down.
BatchSize == 2

Station(uuid, name, country, state) ==
    [uuid |-> uuid, name |-> name, country |-> country, state |-> state]

\* extract_from_brackets, extract_with_keywords and extract_potential_places
\* (lines 132-216), tabulated on the station names of the model: the values
\* are those the functions return for these names.
extract_from_brackets(name) ==
    CASE name = "Radio (Kazan)" -> <<"Kazan">>
      [] OTHER -> <<>>

extract_with_keywords(name) ==
    CASE name = "Radio Moscow City FM" -> << <<"Moscow", "city">> >>
      [] name = "Kazan City" -> << <<"Kazan", "city">> >>
      [] OTHER -> <<>>

extract_potential_places(name) ==
    CASE name = "Radio Moscow City FM" -> <<"moscow", "city">>
      [] name = "Kazan City" -> <<"kazan", "city">>
      [] name = "Radio Peru" -> <<"peru">>
      [] OTHER -> <<>>

\* Whether extract_locations raises: re.findall(pattern, None) (line 144)
\* raises TypeError for a station without a name, and len(station.state)
\* (line 263) for a state that is a number.
extract_raises(station) == station.name = NULL \/ station.state = NUMBER

\* Whether the `except Exception` clause of run() raises itself:
\* _safe_log_text(station.name) (lines 526-527, called on line 700) raises
\* AttributeError for a station without a name.
handler_raises(station) == station.name = NULL

\* extract_locations leaving out the candidates the resolver has cached.
extract_locations_skipping_cached(station) ==
    LET not_cached(entry) ==
            cache_key_of(entry.location, station.country, entry.loc_type)
                \notin DOMAIN g_cache
    IN SelectSeq(extract_locations_merge(extract_from_brackets(station.name),
                                         extract_with_keywords(station.name),
                                         station.state,
                                         extract_potential_places(station.name),
                                         station.country),
                 not_cached)

\* extract_locations (lines 245-283)
extract_locations(station) ==
    extract_locations_merge(extract_from_brackets(station.name),
                            extract_with_keywords(station.name),
                            station.state,
                            extract_potential_places(station.name),
                            station.country)

\* The dict geocode_station builds (lines 616-632); there is no
\* 'needs_regeocoding' key in it.
geocoded_station(station, candidate, result, now) ==
    [uuid |-> station.uuid, name |-> station.name, country |-> station.country,
     state |-> station.state,
     extracted_location |-> candidate.location, location_type |-> candidate.loc_type,
     priority |-> candidate.priority,
     latitude |-> result.latitude, longitude |-> result.longitude,
     place_name |-> result.place_name, mapbox_place_type |-> result.place_type,
     confidence |-> result.confidence, method |-> result.method,
     timestamp |-> now, needs_regeocoding |-> ABSENT]

\* `return None` of geocode_station
NoRecord == [none |-> TRUE]

\* The summary run() logs (lines 707-715).
summary(stations, success_count, error_count, api_calls) ==
    [total_processed |-> Len(stations), successfully_geocoded |-> success_count,
     errors |-> error_count, total_api_calls |-> api_calls]

\* Nothing logged yet.
NoReport == [none |-> TRUE]

\* Where the loop over the candidates goes after candidate k of n has been
\* tried (lines 612-638), not returning at the first result.
after_candidate_no_return(k, n, found) ==
    IF k < n THEN [pc |-> "try", k |-> k + 1] ELSE [pc |-> "store", k |-> k]

\* Where the loop over the candidates goes after candidate k of n has been
\* tried (lines 612-638): `return geocoded_station` on a result, else the next
\* candidate, else `return None`.
after_candidate(k, n, found) ==
    IF found THEN [pc |-> "store", k |-> k]
    ELSE IF k < n THEN [pc |-> "try", k |-> k + 1]
    ELSE [pc |-> "store", k |-> k]

\* The loop of _deduplicate_results keeping the last record of a uuid in the
\* place of the first.
RECURSIVE deduplicated_from_keep_last(_, _, _)
deduplicated_from_keep_last(results, k, deduplicated) ==
    IF k > Len(results) THEN deduplicated
    ELSE LET uuid == results[k].uuid
             seen == {j \in DOMAIN deduplicated : deduplicated[j].uuid = uuid}
         IN IF uuid = "" THEN deduplicated_from_keep_last(results, k + 1, deduplicated)
            ELSE IF seen = {}
            THEN deduplicated_from_keep_last(results, k + 1, Append(deduplicated, results[k]))
            ELSE deduplicated_from_keep_last(results, k + 1,
                    [deduplicated EXCEPT ![CHOOSE j \in seen : TRUE] = results[k]])

\* _deduplicate_results (lines 717-736): the records kept, first seen first.
RECURSIVE deduplicated_from(_, _, _)
deduplicated_from(results, k, deduplicated) ==
    IF k > Len(results) THEN deduplicated
    ELSE LET uuid == results[k].uuid
             seen_uuids == {deduplicated[j].uuid : j \in DOMAIN deduplicated}
         IN IF uuid # "" /\ uuid \notin seen_uuids
            THEN deduplicated_from(results, k + 1, Append(deduplicated, results[k]))
            ELSE deduplicated_from(results, k + 1, deduplicated)

\* self.results after _deduplicate_results
_deduplicate_results(results) ==
    IF results = <<>> THEN results
    ELSE LET deduplicated == deduplicated_from(results, 1, <<>>)
         IN IF Len(results) - Len(deduplicated) > 0 THEN deduplicated ELSE results

\* existing_results_lookup (lines 653-656): uuid -> index of its last record,
\* empty unless reprocessing.
existing_results_lookup(results, reprocess) ==
    IF ~reprocess THEN <<>>
    ELSE [uuid \in {results[k].uuid : k \in DOMAIN results} |->
            CHOOSE k \in DOMAIN results :
                /\ results[k].uuid = uuid
                /\ \A m \in DOMAIN results : results[m].uuid = uuid => m <= k]

\* fetch_stations_without_geo, when reprocessing (lines 533-551): the flagged
\* records of the file, as stations.
RECURSIVE stations_to_reprocess(_)
stations_to_reprocess(geocoded_data) ==
    IF geocoded_data = <<>> THEN <<>>
    ELSE LET item == Head(geocoded_data)
             rest == stations_to_reprocess(Tail(geocoded_data))
         IN IF needs_regeocoding_of(item)
            THEN <<Station(item.uuid, item.name, item.country, item.state)>> \o rest
            ELSE rest

\* The positions of run() inside the try block of the loop body (lines 665-694).
InTryBlock == {"extract", "try", "store", "mark", "checkpoint", "sleep"}

(***************************************************************************)
(* validate_geocoding_results.py                                           *)
(***************************************************************************)
\* station.get(key, ''): a missing key reads as the empty string
get_or_empty(value) == IF value = ABSENT THEN "" ELSE value

\* The list of line 222.
wrong_countries == {"venezuela", "colombia", "brazil", "mexico", "argentina", "peru"}

\* bad_extractions (lines 226-231), its ASCII entries.
bad_extractions ==
    {"pyramid", "plus", "europe", "radio", "hit", "music", "sport", "energy",
     "maximum", "classic", "jazz", "blues", "rock", "pop"}

\* validate_station_result with the two conditions of line 237 joined by
\* `or`.
validate_station_result_any_low(station) ==
    LET place_name == place_name_of(station)
        extracted_location == Lower(get_or_empty(station.extracted_location))
        country == Lower(get_or_empty(station.country))
        confidence == get_or_empty(station.confidence)
    IN (IF /\ Contains(country, "russian federation") \/ Contains(country, "russia")
           /\ \E wrong_country \in wrong_countries :
                  Contains(Lower(place_name), wrong_country)
        THEN <<"Russian station geocoded to South America">> ELSE <<>>)
       \o (IF extracted_location \in bad_extractions
           THEN <<"Bad extraction">> ELSE <<>>)
       \o (IF \/ confidence = "low"
              \/ Contains(get_or_empty(station.location_type), "potential")
           THEN <<"Low confidence on potential match">> ELSE <<>>)

\* validate_station_result (lines 208-240): the list of issues, one entry per
\* rule that fires.
validate_station_result(station) ==
    LET place_name == place_name_of(station)
        extracted_location == Lower(get_or_empty(station.extracted_location))
        country == Lower(get_or_empty(station.country))
        confidence == get_or_empty(station.confidence)
    IN (IF /\ Contains(country, "russian federation") \/ Contains(country, "russia")
           /\ \E wrong_country \in wrong_countries :
                  Contains(Lower(place_name), wrong_country)
        THEN <<"Russian station geocoded to South America">> ELSE <<>>)
       \o (IF extracted_location \in bad_extractions
           THEN <<"Bad extraction">> ELSE <<>>)
       \o (IF /\ confidence = "low"
              /\ Contains(get_or_empty(station.location_type), "potential")
           THEN <<"Low confidence on potential match">> ELSE <<>>)

\* is_problematic_station (lines 242-245)
is_problematic_station(station) == Len(validate_station_result(station)) > 0

\* The validator's own LocationExtractor (lines 15-180).  Its
\* extract_with_keywords (lines 119-141) and extract_potential_places
\* (lines 92-117), tabulated on the station names of the model: the values
\* are those the functions return for these names.
validator_extract_with_keywords(name) ==
    CASE name = "Radio Moscow City FM" -> << <<"Moscow", "city">> >>
      [] name = "Kazan City" -> << <<"Kazan", "city">> >>
      [] OTHER -> <<>>

validator_extract_potential_places(name) ==
    CASE name = "Radio Moscow City FM" -> <<"moscow", "city">>
      [] name = "Kazan City" -> <<"kazan", "city">>
      [] name = "Radio Peru" -> <<"peru">>
      [] OTHER -> <<>>

\* Lines 159-171: the candidates of the three tiers, in the order they are
\* appended.
validator_all_locations(keyword_locations, state, potential_places) ==
    [k \in DOMAIN keyword_locations |->
            Location(keyword_locations[k][1], keyword_locations[k][2], 8)]
    \o (IF state # "" /\ Len(state) > 2 THEN <<Location(state, "region", 6)>> ELSE <<>>)
    \o [k \in DOMAIN potential_places |-> Location(potential_places[k], "potential", 4)]

\* LocationExtractor.extract_locations of the validator (lines 143-180);
\* country is a parameter the body never reads.
validator_extract_locations(name, country, state) ==
    sorted_by_priority(
        unique_locations_from(
            validator_all_locations(validator_extract_with_keywords(name), state,
                                    validator_extract_potential_places(name)),
            1, <<>>))

\* fix_problematic_station with a geocoding of the candidate when a token is
\* given.
fix_problematic_station_geocoding(station, mapbox_token, now) ==
    LET location_tuples ==
            validator_extract_locations(station.name, get_or_empty(station.country),
                                        get_or_empty(station.state))
    IN IF location_tuples = <<>> THEN NoRecord
       ELSE IF mapbox_token # NULL
       THEN [station EXCEPT
               !.extracted_location = location_tuples[1].location,
               !.location_type = location_tuples[1].loc_type,
               !.priority = location_tuples[1].priority,
               !.timestamp = now,
               !.latitude = "55.7",
               !.longitude = "37.6",
               !.place_name = location_tuples[1].location,
               !.method = "mapbox",
               !.needs_regeocoding = "false"]
       ELSE [station EXCEPT
               !.extracted_location = location_tuples[1].location,
               !.location_type = location_tuples[1].loc_type,
               !.priority = location_tuples[1].priority,
               !.timestamp = now,
               !.latitude = NULL,
               !.longitude = NULL,
               !.place_name = "NEEDS_REGEOCODING: " \o location_tuples[1].location,
               !.mapbox_place_type = NULL,
               !.confidence = NULL,
               !.method = "pending_regeocoding",
               !.needs_regeocoding = "true"]

\* fix_problematic_station (lines 247-287) at time.time() = now: None when
\* nothing is extracted, else a copy of the record in the pending form.  The
\* extractor is the validator's; mapbox_token is not read.
fix_problematic_station(station, mapbox_token, now) ==
    LET location_tuples ==
            validator_extract_locations(station.name, get_or_empty(station.country),
                                        get_or_empty(station.state))
    IN IF location_tuples = <<>> THEN NoRecord
       ELSE [station EXCEPT
               !.extracted_location = location_tuples[1].location,
               !.location_type = location_tuples[1].loc_type,
               !.priority = location_tuples[1].priority,
               !.timestamp = now,
               !.latitude = NULL,
               !.longitude = NULL,
               !.place_name = "NEEDS_REGEOCODING: " \o location_tuples[1].location,
               !.mapbox_place_type = NULL,
               !.confidence = NULL,
               !.method = "pending_regeocoding",
               !.needs_regeocoding = "true"]

\* The problematic stations of a list, in its order (lines 339-342 and
\* 295-299).
problematic_of(stations) == SelectSeq(stations, is_problematic_station)

\* station_lookup[uuid] (line 369): the dict comprehension keeps, for a uuid
\* that occurs more than once, the last index.
station_lookup(stations, uuid) ==
    CHOOSE i \in DOMAIN stations :
        /\ stations[i].uuid = uuid
        /\ \A j \in DOMAIN stations : stations[j].uuid = uuid => j <= i

\* Lines 375-378 with the fixed station appended to the list.
updated_stations_append(stations, problem_station, fixed_station, lookup_from) ==
    IF fixed_station = NoRecord THEN stations
    ELSE Append(stations, fixed_station)

\* Lines 375-378: `stations[station_index] = fixed_station` when a fixed
\* station was returned; lookup_from is the list the lookup was built from.
updated_stations(stations, problem_station, fixed_station, lookup_from) ==
    IF fixed_station = NoRecord THEN stations
    ELSE [stations EXCEPT ![station_lookup(lookup_from, problem_station.uuid)] =
              fixed_station]

(***************************************************************************)
(* Bounds and input pools                                                  *)
(***************************************************************************)
\* Longest record collection a file holds.
MaxRecords == 3

BERLIN == "Berlin, Germany"
PENDING_BERLIN == "NEEDS_REGEOCODING: Berlin"

\* Records a collection file may hold: settled, flagged with stale fields,
\* properly pending, and the mixed forms, over repeated and empty uuids and
\* equal, different and missing timestamps.
RecordPool ==
    { Record("abc", "Radio A", 100, ABSENT, "Berlin", BERLIN, "52.5", "13.4"),
      Record("abc", "Radio B", 200, ABSENT, "Berlin", BERLIN, "52.5", "13.4"),
      Record("abc", "Radio C", 200, "true", "Berlin", BERLIN, "52.5", "13.4"),
      Record("abc", "Radio D", NoTimestamp, "true", "Berlin", PENDING_BERLIN, NULL, NULL),
      Record("abc", "Radio E", 0, "true", "Berlin", PENDING_BERLIN, "52.5", "13.4"),
      Record("xyz", "Radio F", 100, "true", "Berlin", "", "52.5", "13.4"),
      Record("xyz", "Radio G", 100, "false", "Berlin", BERLIN, NULL, NULL),
      Record("xyz", "Radio H", 200, "true", ABSENT, BERLIN, "52.5", NULL),
      Record("", "Radio I", 100, ABSENT, "Berlin", BERLIN, "52.5", "13.4"),
      Record("", "Radio J", 200, "true", "Berlin", ABSENT, "52.5", "13.4") }

(***************************************************************************)
(* cleanup_duplicates.py main(), lines 111-148                             *)
(***************************************************************************)
CleanupInit ==
    /\ cl_file \in SeqsUpTo(RecordPool, MaxRecords)
    /\ cl_stations = <<>>
    /\ cl_loaded = <<>>
    /\ cl_deduped = <<>>
    /\ cl_backups = {}
    /\ cl_pc = "start"

\* stations = load_stations(filename); if not stations: return
CleanupLoad ==
    /\ cl_pc = "start"
    /\ cl_stations' = cl_file
    /\ cl_loaded' = cl_file
    /\ cl_pc' = IF cl_file = <<>> THEN "exit" ELSE "loaded"
    /\ UNCHANGED <<cl_file, cl_deduped, cl_backups>>
    /\ UNCHANGED non_cl_vars

\* stations = remove_duplicates(stations)
CleanupRemoveDuplicates ==
    /\ cl_pc = "loaded"
    /\ cl_stations' = remove_duplicates(cl_stations)
    /\ cl_deduped' = remove_duplicates(cl_stations)
    /\ cl_pc' = "deduped"
    /\ UNCHANGED <<cl_file, cl_loaded, cl_backups>>
    /\ UNCHANGED non_cl_vars

\* stations = fix_inconsistent_states(stations)
CleanupFix ==
    /\ cl_pc = "deduped"
    /\ cl_stations' = fix_inconsistent_states(cl_stations)
    /\ cl_pc' = "fixed"
    /\ UNCHANGED <<cl_file, cl_loaded, cl_deduped, cl_backups>>
    /\ UNCHANGED non_cl_vars

\* save_stations(filename, stations) (lines 20-34): shutil.copy2 of the file
\* to a backup, then the write.
CleanupSave ==
    /\ cl_pc = "fixed"
    /\ cl_backups' = cl_backups \cup {cl_file}
    /\ cl_file' = cl_stations
    /\ cl_pc' = "saved"
    /\ UNCHANGED <<cl_stations, cl_loaded, cl_deduped>>
    /\ UNCHANGED non_cl_vars

CleanupNext ==
    \/ CleanupLoad
    \/ CleanupRemoveDuplicates
    \/ CleanupFix
    \/ CleanupSave

(***************************************************************************)
(* The resolver on its own: geocode calls with time passing between them   *)
(***************************************************************************)
Feature(place_name, place_type, center) ==
    [place_name |-> place_name, place_type |-> place_type, center |-> center]

MOSCOW_RU == Feature("Moscow, Russia", <<"place">>, <<"37.6", "55.7">>)
MOSCOW_US == Feature("Moscow, Idaho, United States", <<"place">>, <<"-117.0", "46.7">>)
MOSCOW_OBLAST == Feature("Moscow Oblast, Russia", <<"region", "place_group">>, <<"37.5", "55.5">>)
RUSSIA == Feature("Russia", <<"country">>, <<"105.3", "61.5">>)
NO_CENTER == Feature("Moscow, Russia", <<"place">>, <<>>)

\* Answers of the service.
ResponsePool ==
    { Response(FALSE, <<>>),
      Response(TRUE, <<>>),
      Response(TRUE, <<MOSCOW_RU>>),
      Response(TRUE, <<MOSCOW_US>>),
      Response(TRUE, <<MOSCOW_US, MOSCOW_OBLAST>>),
      Response(TRUE, <<RUSSIA, MOSCOW_OBLAST, MOSCOW_RU>>),
      Response(TRUE, <<MOSCOW_OBLAST, NO_CENTER>>),
      Response(TRUE, <<MOSCOW_RU, NO_CENTER>>) }

\* What geocode is called with: (text, country hint, category).
GeoCallPool ==
    { <<"Moscow", "Russia", "city">>,
      <<"moscow", "Russia", "city">>,
      <<"Moscow", "USA", "city">>,
      <<"Moscow", "", "city">>,
      <<"Moscow", "Russia", "region">>,
      <<"Moscow_ru", "Russia", "city">>,
      <<"Moscow", "ru_Russia", "city">> }

\* Requests issued in one behaviour of the rate limiter.
MaxRequests == 3
\* Requests issued in one behaviour of the resolver on its own.
MaxGeoRequests == 2
\* The clock stops here.
MaxClock == 120
\* Seconds that pass between two calls.
TimeSteps == {20, 40}
\* Seconds time.sleep may return late.
OverSleep == {0, 20}

\* Time passes between two geocode calls.
Tick ==
    /\ \E d \in TimeSteps : g_clock + d <= MaxClock /\ g_clock' = g_clock + d
    /\ UNCHANGED <<g_cache, g_api_calls, g_last_reset, g_requests, g_last>>
    /\ UNCHANGED non_g_vars

\* Calls that differ in text, hint and category, answered in every way.
GeoCall ==
    /\ Len(g_requests) < MaxGeoRequests
    /\ \E call \in GeoCallPool, response \in ResponsePool :
          Geocode(call[1], call[2], call[3], response, 0)
    /\ UNCHANGED non_g_vars

GeoNext == GeoCall

\* Calls at all times, failing or succeeding.
RateCall ==
    /\ Len(g_requests) < MaxRequests
    /\ \E location \in {"Moscow", "Kazan"}, over \in OverSleep,
          response \in {Response(FALSE, <<>>), Response(TRUE, <<MOSCOW_RU>>)} :
          Geocode(location, "Russia", "city", response, over)
    /\ UNCHANGED non_g_vars

RateNext == RateCall \/ Tick

(***************************************************************************)
(* extract_locations on its own: the tier extractors return any lists      *)
(***************************************************************************)
\* Longest list a tier extractor returns.
MaxTier == 2

ExtractTexts == {"Kazan", "kazan", "Omsk"}

KeywordLists ==
    { <<>>,
      << <<"Kazan", "city">> >>,
      << <<"KAZAN", "village">> >>,
      << <<"Omsk", "city">>, <<"kazan", "village">> >>,
      << <<"York", "city">>, <<"New-York", "city">> >> }

ExtractInit ==
    /\ e_in \in [bracket_locations : SeqsUpTo(ExtractTexts, MaxTier),
                 keyword_locations : KeywordLists,
                 state : {"", "NY", "Kazan"},
                 potential_places : SeqsUpTo({"kazan", "omsk"}, MaxTier),
                 country : {"", "Russia", "Kazan"}]
    /\ e_out = <<>>
    /\ e_pc = "call"

ExtractLocations ==
    /\ e_pc = "call"
    /\ e_out' = extract_locations_merge(e_in.bracket_locations, e_in.keyword_locations,
                                        e_in.state, e_in.potential_places, e_in.country)
    /\ e_pc' = "returned"
    /\ UNCHANGED e_in
    /\ UNCHANGED non_e_vars

ExtractNext == ExtractLocations

(***************************************************************************)
(* A run of the orchestrator: StationGeocoder.__init__ and run()           *)
(***************************************************************************)
\* time.time() when the run starts; the records of earlier runs are older.
RunStartTime == 1000

ST_MOSCOW == Station("u1", "Radio Moscow City FM", "Russia", "")
ST_KAZAN == Station("u2", "Radio (Kazan)", "Russia", "")
ST_NONAME == Station("u3", NULL, "Russia", "")
ST_NOCAND == Station("u4", "Radio FM", "", "")
ST_BADSTATE == Station("u5", "Radio FM", "Russia", NUMBER)
ST_MOSCOW_2 == Station("u6", "Radio Moscow City FM", "Russia", "")

\* Records an earlier run or the validator left in the output file.
OLD_MOSCOW ==
    geocoded_station(ST_MOSCOW, Location("city", "potential", 4),
                     GeoResult("59.9", "30.3", "City, Saint Petersburg, Russia", "place", "high"),
                     100)
PENDING_MOSCOW ==
    [OLD_MOSCOW EXCEPT !.needs_regeocoding = "true", !.latitude = NULL, !.longitude = NULL,
                       !.extracted_location = "Moscow", !.location_type = "city",
                       !.priority = 8,
                       !.place_name = "NEEDS_REGEOCODING: Moscow",
                       !.mapbox_place_type = NULL, !.confidence = NULL,
                       !.method = "pending_regeocoding", !.timestamp = 200]
OLD_KAZAN ==
    geocoded_station(ST_KAZAN, Location("Kazan", "extracted", 10),
                     GeoResult("55.8", "49.1", "Kazan, Tatarstan, Russia", "place", "high"),
                     100)

\* What is on disk before the run.
StorePool ==
    { [progress |-> {}, output |-> <<>>],
      [progress |-> {"u1"}, output |-> <<OLD_MOSCOW>>],
      [progress |-> {"u1", "u2"}, output |-> <<PENDING_MOSCOW, OLD_KAZAN>>],
      [progress |-> {"u1"}, output |-> <<OLD_MOSCOW, PENDING_MOSCOW>>] }

\* The files of a run: --reprocess names either the output file the
\* collection is loaded from, or a file of its own; backups are the contents of
\* the backup copies of the output file; unreadable names the files that
\* exist and that open() or json.load() cannot read.  output is the file at
\* the path the run is configured with (--output); when that is not the
\* default path, default_output is what geocoded_stations.json holds, the
\* file __init__ loads before main assigns output_file (lines 477, 762).
FilePool ==
    { [progress |-> s.progress, output |-> s.output,
       reprocess_is_output |-> TRUE, reprocess |-> <<>>, backups |-> {},
       unreadable |-> {}, default_is_output |-> TRUE, default_output |-> <<>>] :
      s \in StorePool }
    \cup
    { [progress |-> {"u2"}, output |-> <<OLD_KAZAN>>,
       reprocess_is_output |-> FALSE, reprocess |-> <<PENDING_MOSCOW, OLD_KAZAN>>,
       backups |-> {}, unreadable |-> {}, default_is_output |-> TRUE,
       default_output |-> <<>>] }
    \cup
    { [progress |-> {"u1"}, output |-> <<PENDING_MOSCOW, OLD_KAZAN>>,
       reprocess_is_output |-> TRUE, reprocess |-> <<>>, backups |-> {},
       unreadable |-> u, default_is_output |-> TRUE, default_output |-> <<>>] :
      u \in {{"output"}, {"progress"}} }
    \cup
    { [progress |-> {"u2"}, output |-> <<OLD_KAZAN>>,
       reprocess_is_output |-> TRUE, reprocess |-> <<>>, backups |-> {},
       unreadable |-> {}, default_is_output |-> FALSE, default_output |-> d] :
      d \in {<<>>, <<OLD_MOSCOW>>} }

\* What the station source lists.
UpstreamPool ==
    { <<ST_MOSCOW, ST_KAZAN>>,
      <<ST_KAZAN, ST_BADSTATE, ST_MOSCOW>>,
      <<ST_KAZAN, ST_NONAME, ST_MOSCOW>>,
      <<ST_NOCAND, ST_MOSCOW>>,
      <<ST_MOSCOW, ST_MOSCOW_2>> }

\* How the service answers a request of the run.
RunResponses ==
    {Response(FALSE, <<>>), Response(TRUE, <<NO_CENTER>>), Response(TRUE, <<MOSCOW_RU>>)}

RunInit ==
    /\ r_files \in FilePool
    /\ r_reprocess \in BOOLEAN
    /\ r_reprocess \/ r_files.reprocess_is_output
    /\ ~r_reprocess \/ r_files.default_is_output
    /\ r_upstream \in UpstreamPool
    /\ r_processed = {}
    /\ r_results = <<>>
    /\ r_run = [pc |-> "new", stations |-> <<>>, lookup |-> <<>>, i |-> 0,
                success_count |-> 0, error_count |-> 0]
    /\ r_station = [locations |-> <<>>, k |-> 0, result |-> NoRecord]
    /\ r_hist = [loaded_processed |-> {}, loaded_results |-> <<>>, started |-> <<>>,
                 tried |-> <<>>, unsaved |-> 0, written |-> {}, interrupt_at |-> "none",
                 saved |-> "none", load_failed |-> FALSE, report |-> NoReport,
                 extracted |-> <<>>, prior_output |-> r_files.output]

RunIdle ==
    /\ r_files = [progress |-> {}, output |-> <<>>]
    /\ r_reprocess = FALSE
    /\ r_upstream = <<>>
    /\ r_processed = {}
    /\ r_results = <<>>
    /\ r_run = [pc |-> "idle"]
    /\ r_station = [locations |-> <<>>, k |-> 0, result |-> NoRecord]
    /\ r_hist = [started |-> <<>>]

\* What geocode(location, country, place_type) returns in the current state
\* when the service answers response.
geocode_returns(location, country, place_type, response) ==
    IF cache_key_of(location, country, place_type) \in DOMAIN g_cache
    THEN g_cache[cache_key_of(location, country, place_type)]
    ELSE select_result(response, country)

\* _save_progress (lines 508-523): the two files are opened for writing and
\* rewritten; no copy of either is made.
_save_progress(files, processed, results) ==
    [files EXCEPT !.progress = processed, !.output = results, !.unreadable = {}]

\* _load_progress (lines 489-506): what self.processed_uuids and self.results
\* are after it; a file that cannot be read is logged and leaves the empty
\* value of __init__.
loaded_processed_uuids(files) ==
    IF "progress" \in files.unreadable THEN {} ELSE files.progress

\* self.results after _load_progress (lines 500-506), which reads the
\* default output file.
loaded_results(files) ==
    IF ~files.default_is_output THEN files.default_output
    ELSE IF "output" \in files.unreadable THEN <<>> ELSE files.output

\* Whether json.load of the reprocess file raises in fetch_stations_without_geo
\* (lines 535-536), which its except clause turns into `return []`.
reprocess_file_unreadable(files) ==
    files.reprocess_is_output /\ "output" \in files.unreadable

\* The contents of self.reprocess_file (lines 533-536)
reprocess_file(files) ==
    IF files.reprocess_is_output THEN files.output ELSE files.reprocess

\* StationGeocoder.__init__ -> _load_progress (lines 489-506)
RunConstruct ==
    /\ r_run.pc = "new"
    /\ r_processed' = loaded_processed_uuids(r_files)
    /\ r_results' = loaded_results(r_files)
    /\ r_hist' = [r_hist EXCEPT !.loaded_processed = loaded_processed_uuids(r_files),
                                !.loaded_results = loaded_results(r_files),
                                !.load_failed = r_files.unreadable # {}]
    /\ r_run' = [r_run EXCEPT !.pc = "constructed"]
    /\ UNCHANGED <<r_files, r_reprocess, r_upstream, r_station>>
    /\ UNCHANGED g_vars /\ UNCHANGED non_r_vars

\* run(), lines 645-660: fetch the stations, build the lookup.
RunFetch ==
    /\ r_run.pc = "constructed"
    /\ LET stations == IF ~r_reprocess THEN r_upstream
                       ELSE IF reprocess_file_unreadable(r_files) THEN <<>>
                       ELSE stations_to_reprocess(reprocess_file(r_files))
       IN r_run' = IF stations = <<>>
                   THEN [r_run EXCEPT !.pc = "returned"]
                   ELSE [r_run EXCEPT !.pc = "loop_head", !.stations = stations, !.i = 1,
                            !.lookup = existing_results_lookup(r_results, r_reprocess)]
    /\ UNCHANGED <<r_files, r_reprocess, r_upstream, r_processed, r_results, r_station,
                   r_hist>>
    /\ UNCHANGED g_vars /\ UNCHANGED non_r_vars

\* `for i, station in enumerate(stations)` (line 664)
RunLoopHead ==
    /\ r_run.pc = "loop_head"
    /\ IF r_run.i > Len(r_run.stations)
       THEN /\ r_run' = [r_run EXCEPT !.pc = "final"]
            /\ UNCHANGED r_hist
       ELSE /\ r_run' = [r_run EXCEPT !.pc = "extract"]
            /\ r_hist' = [r_hist EXCEPT
                            !.started = Append(@, r_run.stations[r_run.i].uuid),
                            !.tried = <<>>,
                            !.unsaved = @ + 1]
    /\ r_station' = [locations |-> <<>>, k |-> 0, result |-> NoRecord]
    /\ UNCHANGED <<r_files, r_reprocess, r_upstream, r_processed, r_results>>
    /\ UNCHANGED g_vars /\ UNCHANGED non_r_vars

\* geocode_station, lines 605-609
RunExtract ==
    /\ r_run.pc = "extract"
    /\ LET station == r_run.stations[r_run.i]
           locations == extract_locations(station)
       IN IF extract_raises(station)
          THEN /\ r_run' = [r_run EXCEPT !.pc = "handler"]
               /\ UNCHANGED r_station
               /\ UNCHANGED r_hist
          ELSE /\ IF locations = <<>>
                  THEN /\ r_run' = [r_run EXCEPT !.pc = "store"]
                       /\ r_station' = [locations |-> <<>>, k |-> 0, result |-> NoRecord]
                  ELSE /\ r_run' = [r_run EXCEPT !.pc = "try"]
                       /\ r_station' = [locations |-> locations, k |-> 1,
                                        result |-> NoRecord]
               /\ r_hist' = [r_hist EXCEPT !.extracted = Append(@,
                     [name |-> station.name, country |-> station.country,
                      state |-> station.state, locations |-> locations])]
    /\ UNCHANGED <<r_files, r_reprocess, r_upstream, r_processed, r_results>>
    /\ UNCHANGED g_vars /\ UNCHANGED non_r_vars

\* geocode_station, lines 612-638: one turn of the loop over the candidates
RunTryCandidate ==
    /\ r_run.pc = "try"
    /\ LET station == r_run.stations[r_run.i]
           candidate == r_station.locations[r_station.k]
       IN \E response \in RunResponses :
            LET result == geocode_returns(candidate.location, station.country,
                                          candidate.loc_type, response)
                found == result # NoResult
                next == after_candidate(r_station.k, Len(r_station.locations), found)
            IN /\ Geocode(candidate.location, station.country, candidate.loc_type,
                          response, 0)
               /\ r_station' = [r_station EXCEPT
                     !.k = next.k,
                     !.result = IF found
                                THEN geocoded_station(station, candidate, result, g_clock')
                                ELSE @]
               /\ r_run' = [r_run EXCEPT !.pc = next.pc]
               /\ r_hist' = [r_hist EXCEPT !.tried = Append(@,
                     [k |-> r_station.k, location |-> candidate.location,
                      place_type |-> candidate.loc_type, found |-> found])]
    /\ UNCHANGED <<r_files, r_reprocess, r_upstream, r_processed, r_results>>
    /\ UNCHANGED non_r_vars

\* run(), lines 668-678
RunStore ==
    /\ r_run.pc = "store"
    /\ LET uuid == r_run.stations[r_run.i].uuid
           result == r_station.result
       IN IF result # NoRecord
          THEN /\ r_results' = IF r_reprocess /\ uuid \in DOMAIN r_run.lookup
                               THEN [r_results EXCEPT ![r_run.lookup[uuid]] = result]
                               ELSE Append(r_results, result)
               /\ r_run' = [r_run EXCEPT !.pc = "mark", !.success_count = @ + 1]
               /\ r_hist' = [r_hist EXCEPT !.written = @ \cup {[i |-> r_run.i, rec |-> result]}]
          ELSE /\ r_run' = [r_run EXCEPT !.pc = "mark", !.error_count = @ + 1]
               /\ UNCHANGED <<r_results, r_hist>>
    /\ UNCHANGED <<r_files, r_reprocess, r_upstream, r_processed, r_station>>
    /\ UNCHANGED g_vars /\ UNCHANGED non_r_vars

\* A run that marks a station processed only when it was geocoded.
RunMark_only_on_success ==
    /\ r_run.pc = "mark"
    /\ r_processed' = IF r_station.result # NoRecord
                      THEN r_processed \cup {r_run.stations[r_run.i].uuid}
                      ELSE r_processed
    /\ r_run' = [r_run EXCEPT !.pc = "checkpoint"]
    /\ UNCHANGED <<r_files, r_reprocess, r_upstream, r_results, r_station, r_hist>>
    /\ UNCHANGED g_vars /\ UNCHANGED non_r_vars

\* run(), lines 680-682
RunMark ==
    /\ r_run.pc = "mark"
    /\ r_processed' = r_processed \cup {r_run.stations[r_run.i].uuid}
    /\ r_run' = [r_run EXCEPT !.pc = "checkpoint"]
    /\ UNCHANGED <<r_files, r_reprocess, r_upstream, r_results, r_station, r_hist>>
    /\ UNCHANGED g_vars /\ UNCHANGED non_r_vars

\* run(), lines 684-691: i here is the source's i + 1
RunCheckpoint ==
    /\ r_run.pc = "checkpoint"
    /\ IF r_run.i % BatchSize = 0
       THEN /\ r_files' = _save_progress(r_files, r_processed, r_results)
            /\ r_hist' = [r_hist EXCEPT !.unsaved = 0, !.saved = "checkpoint"]
       ELSE UNCHANGED <<r_files, r_hist>>
    /\ r_run' = [r_run EXCEPT !.pc = "sleep"]
    /\ UNCHANGED <<r_reprocess, r_upstream, r_processed, r_results, r_station>>
    /\ UNCHANGED g_vars /\ UNCHANGED non_r_vars

\* run(), line 694, and on to the next station
RunSleep ==
    /\ r_run.pc = "sleep"
    /\ r_run' = [r_run EXCEPT !.pc = "loop_head", !.i = @ + 1]
    /\ UNCHANGED <<r_files, r_reprocess, r_upstream, r_processed, r_results, r_station,
                   r_hist>>
    /\ UNCHANGED g_vars /\ UNCHANGED non_r_vars

\* run(), lines 699-701: `except Exception`, and on to the next station,
\* unless the clause raises itself
RunHandler ==
    /\ r_run.pc = "handler"
    /\ r_run' = IF handler_raises(r_run.stations[r_run.i])
                THEN [r_run EXCEPT !.pc = "aborted"]     \* the exception leaves run()
                ELSE [r_run EXCEPT !.pc = "loop_head", !.i = @ + 1, !.error_count = @ + 1]
    /\ UNCHANGED <<r_files, r_reprocess, r_upstream, r_processed, r_results, r_station,
                   r_hist>>
    /\ UNCHANGED g_vars /\ UNCHANGED non_r_vars

\* KeyboardInterrupt raised inside the try block: lines 696-698, `break`
RunInterrupt ==
    /\ r_run.pc \in InTryBlock
    /\ r_run' = [r_run EXCEPT !.pc = "final"]
    /\ r_hist' = [r_hist EXCEPT !.interrupt_at = r_run.pc]
    /\ UNCHANGED <<r_files, r_reprocess, r_upstream, r_processed, r_results, r_station>>
    /\ UNCHANGED g_vars /\ UNCHANGED non_r_vars

\* KeyboardInterrupt raised inside the `except Exception` clause (line 700):
\* no clause of the try statement catches it and it leaves run().
RunInterruptInHandler ==
    /\ r_run.pc = "handler"
    /\ r_run' = [r_run EXCEPT !.pc = "aborted"]
    /\ r_hist' = [r_hist EXCEPT !.interrupt_at = "handler"]
    /\ UNCHANGED <<r_files, r_reprocess, r_upstream, r_processed, r_results, r_station>>
    /\ UNCHANGED g_vars /\ UNCHANGED non_r_vars

\* run(), lines 703-715: the final save with deduplication, and the summary
RunFinal ==
    /\ r_run.pc = "final"
    /\ r_results' = _deduplicate_results(r_results)
    /\ r_files' = _save_progress(r_files, r_processed, _deduplicate_results(r_results))
    /\ r_run' = [r_run EXCEPT !.pc = "done"]
    /\ r_hist' = [r_hist EXCEPT !.unsaved = 0, !.saved = "terminal",
                                !.report = summary(r_run.stations, r_run.success_count,
                                                   r_run.error_count, g_api_calls)]
    /\ UNCHANGED <<r_reprocess, r_upstream, r_processed, r_station>>
    /\ UNCHANGED g_vars /\ UNCHANGED non_r_vars

RunNext ==
    \/ RunConstruct
    \/ RunFetch
    \/ RunLoopHead
    \/ RunExtract
    \/ RunTryCandidate
    \/ RunStore
    \/ RunMark
    \/ RunCheckpoint
    \/ RunSleep
    \/ RunHandler
    \/ RunInterrupt
    \/ RunInterruptInHandler
    \/ RunFinal

(***************************************************************************)
(* validate_geocoding_results.py main(), lines 426-453, and                *)
(* fix_geocoding_file, lines 326-393                                       *)
(***************************************************************************)
\* Longest record collection the validated file holds.
MaxValidated == 2

V_KAZAN_CITY == Station("u7", "Kazan City", "The Russian Federation", "Tatarstan")
V_RADIO_PERU == Station("u8", "Radio Peru", "Russia", "")

\* Records the validated file may hold: written by a run of the
\* orchestrator, sound or with one of the faults the validator looks for.
ValidatedPool ==
    { OLD_KAZAN,
      PENDING_MOSCOW,
      [OLD_MOSCOW EXCEPT !.place_name = "Moscow, Arequipa, Peru"],
      [OLD_MOSCOW EXCEPT !.country = "Germany", !.place_name = "Moscow, Arequipa, Peru"],
      [OLD_KAZAN EXCEPT !.extracted_location = "Radio", !.place_name = "Radio, Kazan, Russia"],
      [OLD_MOSCOW EXCEPT !.extracted_location = "hit radio", !.confidence = "low",
                         !.location_type = "city", !.priority = 8],
      [OLD_MOSCOW EXCEPT !.confidence = "low"],
      geocoded_station(V_KAZAN_CITY, Location("city", "potential", 4),
                       GeoResult("-12.0", "-77.0", "City, Lima, Peru", "place", "low"),
                       100),
      geocoded_station(V_RADIO_PERU, Location("peru", "potential", 4),
                       GeoResult("-9.2", "-75.0", "Peru", "country", "high"),
                       100) }

ValidateArgsPool ==
    [mode : {"report", "search", "fix"}, token : {NULL, "pk.token"}, answer : {"y", "N"}]

ValidateInit ==
    /\ v_file \in SeqsUpTo(ValidatedPool, MaxValidated)
    /\ v_args \in ValidateArgsPool
    /\ v_stations = <<>>
    /\ v_problematic = <<>>
    /\ v_i = 0
    /\ v_backups = {}
    /\ v_hist = [loaded |-> <<>>, rewritten |-> {}]
    /\ v_pc = "start"

\* main(), lines 439-443: stations = load_geocoded_results(args.json_file);
\* `if not stations: return`
ValidateLoad ==
    /\ v_pc = "start"
    /\ v_stations' = v_file
    /\ v_hist' = [v_hist EXCEPT !.loaded = v_file]
    /\ v_pc' = IF v_file = <<>> THEN "exit" ELSE v_args.mode
    /\ UNCHANGED <<v_file, v_args, v_problematic, v_i, v_backups>>
    /\ UNCHANGED non_v_vars

\* check_specific_station (lines 395-424): prints, changes nothing.
ValidateSearch ==
    /\ v_pc = "search"
    /\ v_pc' = "done"
    /\ UNCHANGED <<v_file, v_args, v_stations, v_problematic, v_i, v_backups, v_hist>>
    /\ UNCHANGED non_v_vars

\* find_problematic_results (lines 289-324): collects and prints.
ValidateReport ==
    /\ v_pc = "report"
    /\ v_problematic' = problematic_of(v_stations)
    /\ v_pc' = "done"
    /\ UNCHANGED <<v_file, v_args, v_stations, v_i, v_backups, v_hist>>
    /\ UNCHANGED non_v_vars

\* fix_geocoding_file, lines 329-346: the file is loaded again and the
\* problematic stations are collected; `if not problematic: return`.
ValidateIdentify ==
    /\ v_pc = "fix"
    /\ v_stations' = v_file
    /\ v_problematic' = problematic_of(v_file)
    /\ v_pc' = IF problematic_of(v_file) = <<>> THEN "exit" ELSE "confirm"
    /\ UNCHANGED <<v_file, v_args, v_i, v_backups, v_hist>>
    /\ UNCHANGED non_v_vars

\* Lines 357-360: `if response.lower() != 'y': return`
ValidateConfirm ==
    /\ v_pc = "confirm"
    /\ v_pc' = IF Lower(v_args.answer) # "y" THEN "exit" ELSE "fixing"
    /\ v_i' = 1
    /\ UNCHANGED <<v_file, v_args, v_stations, v_problematic, v_backups, v_hist>>
    /\ UNCHANGED non_v_vars

\* One iteration of the loop of lines 371-379.
ValidateFixOne ==
    /\ v_pc = "fixing"
    /\ v_i <= Len(v_problematic)
    /\ LET problem_station == v_problematic[v_i]
           fixed_station ==
               fix_problematic_station(problem_station, v_args.token, RunStartTime)
       IN /\ v_stations' = updated_stations(v_stations, problem_station, fixed_station,
                                            v_hist.loaded)
          /\ v_hist' = [v_hist EXCEPT !.rewritten =
                            IF fixed_station = NoRecord THEN @
                            ELSE @ \cup {station_lookup(v_hist.loaded,
                                                        problem_station.uuid)}]
    /\ v_i' = v_i + 1
    /\ UNCHANGED <<v_file, v_args, v_problematic, v_backups, v_pc>>
    /\ UNCHANGED non_v_vars

\* Lines 388-393, save_geocoded_results (lines 190-206): the file exists, it
\* is copied to a backup and then rewritten.
ValidateSave ==
    /\ v_pc = "fixing"
    /\ v_i > Len(v_problematic)
    /\ v_backups' = v_backups \cup {v_file}
    /\ v_file' = v_stations
    /\ v_pc' = "saved"
    /\ UNCHANGED <<v_args, v_stations, v_problematic, v_i, v_hist>>
    /\ UNCHANGED non_v_vars

ValidateNext ==
    \/ ValidateLoad
    \/ ValidateSearch
    \/ ValidateReport
    \/ ValidateIdentify
    \/ ValidateConfirm
    \/ ValidateFixOne
    \/ ValidateSave

(***************************************************************************)
(* The scoring on its own: a word is scored, then the potential places of  *)
(* a list of words are extracted                                           *)
(***************************************************************************)
\* Longest list of words of a cleaned name.
MaxWords == 2

\* Words to score: Moscow, omsk, The, the, and, new, Old, Georgetown,
\* hamburg, of, and in Cyrillic letters omsk, Moskva, na, novyj, Novgorod;
\* the last is `europa' followed by the Cyrillic word volna.
MOSKVA_CY == <<"cy:m", "cy:o", "cy:s", "cy:k", "cy:v", "cy:a">>
EUROPA_VOLNA == Chars("europa") \o <<"cy:v", "cy:o", "cy:l", "cy:n", "cy:a">>

ScoredWordPool ==
    { Chars("Moscow"), Chars("omsk"), Chars("The"), Chars("the"), Chars("and"),
      Chars("new"), Chars("Old"), Chars("Georgetown"), Chars("hamburg"), Chars("of"),
      <<"cy:o", "cy:m", "cy:s", "cy:k">>,
      <<"CY:m", "cy:o", "cy:s", "cy:k", "cy:v", "cy:a">>,
      <<"cy:n", "cy:a">>,
      <<"cy:n", "cy:o", "cy:v", "cy:y", "cy:j">>,
      <<"CY:n", "cy:o", "cy:v", "cy:g", "cy:o", "cy:r", "cy:o", "cy:d">>,
      EUROPA_VOLNA }

\* Words of a cleaned name (clean_name lower-cases, lines 120-121).
CleanedWordPool ==
    { Chars("moskva"), Chars("omsk"), Chars("and"), Chars("42"), Chars("amsterdam"),
      Chars("pyramid"), Chars("tomsk-2"), MOSKVA_CY, EUROPA_VOLNA }

ScoreInit ==
    /\ p_word \in ScoredWordPool
    /\ p_words \in SeqsUpTo(CleanedWordPool, MaxWords)
    /\ p_score = 0
    /\ p_places = <<>>
    /\ p_pc = "score"

\* score = self._score_place_likelihood(word)
ScoreWord ==
    /\ p_pc = "score"
    /\ p_score' = _score_place_likelihood(p_word)
    /\ p_pc' = "extract"
    /\ UNCHANGED <<p_word, p_words, p_places>>
    /\ UNCHANGED non_p_vars

\* places = self.extract_potential_places(name), words being the words of
\* the cleaned name
ExtractPotentialPlaces ==
    /\ p_pc = "extract"
    /\ p_places' = potential_places_of(p_words)
    /\ p_pc' = "returned"
    /\ UNCHANGED <<p_word, p_words, p_score>>
    /\ UNCHANGED non_p_vars

ScoreNext == ScoreWord \/ ExtractPotentialPlaces

(***************************************************************************)
(* Specifications: one tool runs, the others stay as constructed           *)
(***************************************************************************)
CleanupIdle ==
    /\ cl_file = <<>> /\ cl_stations = <<>> /\ cl_loaded = <<>>
    /\ cl_deduped = <<>> /\ cl_backups = {} /\ cl_pc = "idle"

ExtractIdle == e_in = <<>> /\ e_out = <<>> /\ e_pc = "idle"

ScoreIdle ==
    p_word = <<>> /\ p_words = <<>> /\ p_score = 0 /\ p_places = <<>> /\ p_pc = "idle"

ValidateIdle ==
    /\ v_file = <<>> /\ v_args = <<>> /\ v_stations = <<>> /\ v_problematic = <<>>
    /\ v_i = 0 /\ v_backups = {} /\ v_hist = <<>> /\ v_pc = "idle"

CleanupSpecInit ==
    CleanupInit /\ GeocoderInit /\ ExtractIdle /\ RunIdle /\ ValidateIdle /\ ScoreIdle
SpecCleanup == CleanupSpecInit /\ [][CleanupNext]_vars

GeocoderSpecInit ==
    GeocoderInit /\ CleanupIdle /\ ExtractIdle /\ RunIdle /\ ValidateIdle /\ ScoreIdle
SpecGeo == GeocoderSpecInit /\ [][GeoNext]_vars
SpecRate == GeocoderSpecInit /\ [][RateNext]_vars

ExtractSpecInit ==
    ExtractInit /\ GeocoderInit /\ CleanupIdle /\ RunIdle /\ ValidateIdle /\ ScoreIdle
SpecExtract == ExtractSpecInit /\ [][ExtractNext]_vars

RunSpecInit ==
    /\ RunInit /\ GeocoderInitAt(RunStartTime) /\ CleanupIdle /\ ExtractIdle
    /\ ValidateIdle /\ ScoreIdle
SpecRun == RunSpecInit /\ [][RunNext]_vars

ValidateSpecInit ==
    ValidateInit /\ GeocoderInit /\ CleanupIdle /\ ExtractIdle /\ RunIdle /\ ScoreIdle
SpecValidate == ValidateSpecInit /\ [][ValidateNext]_vars

ScoreSpecInit ==
    ScoreInit /\ GeocoderInit /\ CleanupIdle /\ ExtractIdle /\ RunIdle /\ ValidateIdle
SpecScore == ScoreSpecInit /\ [][ScoreNext]_vars

(***************************************************************************)
(* Claims about cleanup_duplicates.py, checked under SpecCleanup           *)
(***************************************************************************)
CleanupRepaired == cl_pc \in {"fixed", "saved"}

\* C1: after fix_inconsistent_states has run, every record of the collection
\* is either settled (both coordinates present, flag false or absent) or
\* pending (both coordinates null, flag true, place_name starting with the
\* sentinel), whatever the record was before.
C1_EveryRecordSettledOrPending ==
    CleanupRepaired =>
        \A k \in DOMAIN cl_stations :
            IsSettled(cl_stations[k]) \/ IsPending(cl_stations[k])

\* The dict values of the records with uuid u, in input order.
IndicesOfUuid(stations, u) == {k \in DOMAIN stations : stations[k].uuid = u}

\* The first index among those of uuid u that carries the largest timestamp.
FirstLargest(stations, u) ==
    CHOOSE k \in IndicesOfUuid(stations, u) :
        /\ \A m \in IndicesOfUuid(stations, u) :
              timestamp_of(stations[m]) <= timestamp_of(stations[k])
        /\ \A m \in IndicesOfUuid(stations, u) :
              timestamp_of(stations[m]) = timestamp_of(stations[k]) => k <= m

\* C10: remove_duplicates returns exactly one record for every (non-empty)
\* uuid of its input, and it is the input record with the largest timestamp
\* (a missing timestamp counting as 0), the first of them on a tie.
C10_MostRecentWins ==
    cl_pc \in {"deduped", "fixed", "saved"} =>
        \A u \in {cl_loaded[k].uuid : k \in DOMAIN cl_loaded} \ {""} :
            /\ Cardinality(IndicesOfUuid(cl_deduped, u)) = 1
            /\ \A j \in IndicesOfUuid(cl_deduped, u) :
                  cl_deduped[j] = cl_loaded[FirstLargest(cl_loaded, u)]

\* C10 witness: remove_duplicates has run on a collection in which two
\* different records share a uuid and its largest timestamp, next to an
\* older one with no timestamp at all.
C10_Witness ==
    /\ cl_pc = "deduped"
    /\ \E a, b, c \in DOMAIN cl_loaded :
          /\ a < b
          /\ cl_loaded[a].uuid = cl_loaded[b].uuid
          /\ cl_loaded[c].uuid = cl_loaded[a].uuid
          /\ cl_loaded[a] # cl_loaded[b]
          /\ timestamp_of(cl_loaded[a]) = timestamp_of(cl_loaded[b])
          /\ cl_loaded[c].timestamp = NoTimestamp
          /\ timestamp_of(cl_loaded[a]) > 0
          /\ cl_loaded[a] \in Range(cl_deduped)

(***************************************************************************)
(* Claims about MapBoxGeocoder, checked under SpecRate and SpecGeo         *)
(***************************************************************************)
\* The requests issued in the 60 seconds that end with request i.
RequestsInWindowEndingAt(i) ==
    {j \in DOMAIN g_requests :
        /\ g_requests[j].at <= g_requests[i].at
        /\ g_requests[j].at > g_requests[i].at - WindowSeconds}

\* C2: every rolling 60-second interval contains at most
\* max_calls_per_minute external requests.
C2_RollingWindowCeiling ==
    \A i \in DOMAIN g_requests :
        Cardinality(RequestsInWindowEndingAt(i)) <= MaxCallsPerMinute

\* C2, amended: the windows are fixed ones, measured from last_reset: of the
\* requests issued under one value of last_reset, at most
\* max_calls_per_minute are issued less than 60 seconds after it.
C2_FixedWindowCeiling ==
    \A w \in {g_requests[i].window : i \in DOMAIN g_requests} :
        Cardinality({j \in DOMAIN g_requests :
                        /\ g_requests[j].window = w
                        /\ g_requests[j].at - w < WindowSeconds}) <= MaxCallsPerMinute

\* C2 witness: a call found the ceiling reached inside the window, slept and
\* was issued in a new window.
C2_Witness ==
    /\ g_last.called /\ g_last.slept
    /\ Len(g_requests) = MaxCallsPerMinute + 1
    /\ g_requests[Len(g_requests)].window > g_requests[1].window

\* C7: with a country hint, the result geocode returns never has a label
\* whose last comma-separated part is not a name variation of the hinted
\* country.
C7_CountryMismatchExcluded ==
    (g_last.called /\ g_last.country # "" /\ g_last.result # NoResult) =>
        actual_country_of(g_last.result.place_name) \in
            _get_country_variations(_normalize_country_name(g_last.country))

(***************************************************************************)
(* Claims about extract_locations, checked under SpecExtract               *)
(***************************************************************************)
\* The candidates of all tiers for the station of e_in, before the merge.
RawLocations ==
    all_locations(e_in.bracket_locations, e_in.keyword_locations, e_in.state,
                  e_in.potential_places, e_in.country)

\* C9: extract_locations returns a list sorted by non-increasing priority,
\* without two entries of case-insensitively equal text; a text produced by
\* several tiers is kept once, as the entry of its highest-priority tier, so
\* that bracket and keyword candidates precede the region, the potential
\* tokens and the country.
C9_PriorityOrderedAndUnique ==
    e_pc = "returned" =>
        /\ \A i, j \in DOMAIN e_out : i < j => e_out[i].priority >= e_out[j].priority
        /\ \A i, j \in DOMAIN e_out :
              Lower(e_out[i].location) = Lower(e_out[j].location) => i = j
        /\ \A k \in DOMAIN RawLocations :
              \E i \in DOMAIN e_out :
                 /\ Lower(e_out[i].location) = Lower(RawLocations[k].location)
                 /\ e_out[i].priority >= RawLocations[k].priority
        /\ Range(e_out) \subseteq Range(RawLocations)
        /\ \A i, j \in DOMAIN e_out :
              (e_out[i].priority >= 8 /\ e_out[j].priority <= 6) => i < j

\* C9 witness: a text came from the bracket tier and, in another case, from
\* the potential tier too, and the list was returned with more than one
\* priority in it.
C9_Witness ==
    /\ e_pc = "returned"
    /\ \E a \in DOMAIN e_in.bracket_locations, b \in DOMAIN e_in.potential_places :
          /\ Lower(e_in.bracket_locations[a]) = e_in.potential_places[b]
          /\ e_in.bracket_locations[a] # e_in.potential_places[b]
    /\ e_in.country # ""
    /\ Len(e_out) >= 2

(***************************************************************************)
(* Claims about StationGeocoder, checked under SpecRun                     *)
(***************************************************************************)
RunIsLive == r_run.pc \notin {"idle", "new"}

\* The uuids with a settled record in the collection loaded at construction.
LoadedSettled ==
    {r_hist.loaded_results[k].uuid :
        k \in {m \in DOMAIN r_hist.loaded_results : IsSettled(r_hist.loaded_results[m])}}

\* The station the loop is at.
CurrentStation == r_run.stations[r_run.i]

\* uuid was processed by an earlier run: it is in the loaded set of processed
\* identifiers or has a settled record in the loaded collection.
AlreadyProcessed(uuid) == uuid \in r_hist.loaded_processed \/ uuid \in LoadedSettled

\* C3: a station whose uuid is in the loaded processed-identifier set, or
\* that has a settled record in the loaded collection, is not processed
\* again: no extraction, no resolver call and no record appended for it.
C3_ProcessedStationsAreSkipped ==
    RunIsLive =>
        /\ r_run.pc \in {"try", "store", "mark", "checkpoint", "sleep", "handler"} =>
              ~AlreadyProcessed(CurrentStation.uuid)
        /\ \A w \in r_hist.written : ~AlreadyProcessed(w.rec.uuid)

\* C4: between two stations, the stations iterated since the last flush of
\* processed_uuids and results number less than the batch size, whatever
\* their outcome was.
C4_LessThanABatchUnsaved ==
    (RunIsLive /\ r_run.pc = "loop_head") => r_hist.unsaved < BatchSize

\* C5: after an interrupt delivered in the station loop, run ends with the
\* deduplication and one more _save_progress, and the saved collection then
\* holds every record that the stations completed before the interrupt
\* appended or replaced.
C5_InterruptedRunSavesAllRecords ==
    (RunIsLive /\ r_hist.interrupt_at # "none" /\ r_run.pc \in {"done", "aborted"}) =>
        /\ r_run.pc = "done"
        /\ r_files.output = r_results
        /\ \A w \in r_hist.written :
              w.i < r_run.i => w.rec \in Range(r_files.output)

\* C6: an interrupt takes effect between stations only: no station is
\* abandoned part-way through its candidate list, and in every saved state a
\* record written by this run has its uuid marked processed.
C6_StationsAreAtomic ==
    RunIsLive =>
        /\ ~(r_hist.interrupt_at = "try" /\ r_hist.tried # <<>>)
        /\ \A w \in r_hist.written :
              w.rec \in Range(r_files.output) => w.rec.uuid \in r_files.progress

\* C8: geocode_station calls the resolver on the candidates in the order
\* extract_locations returned them (non-increasing priority), stops at the
\* first call that returns a result, builds the record from that candidate
\* and calls the resolver for no later candidate.
C8_FirstSuccessInPriorityOrder ==
    (RunIsLive /\ r_run.pc \in {"try", "store"} /\ r_station.locations # <<>>) =>
        LET locations == r_station.locations
            tried == r_hist.tried
            n == Len(tried)
        IN /\ n <= Len(locations)
           /\ \A j \in 1..Len(locations) - 1 :
                 locations[j].priority >= locations[j + 1].priority
           /\ \A j \in 1..n :
                 /\ tried[j].k = j
                 /\ tried[j].location = locations[j].location
                 /\ tried[j].place_type = locations[j].loc_type
                 /\ (j < n => ~tried[j].found)
           /\ r_run.pc = "try" => (r_station.k = n + 1 /\ \A j \in 1..n : ~tried[j].found)
           /\ (r_run.pc = "store" /\ r_station.result = NoRecord) =>
                 (n = Len(locations) /\ \A j \in 1..n : ~tried[j].found)
           /\ (r_run.pc = "store" /\ r_station.result # NoRecord) =>
                 /\ n >= 1 /\ tried[n].found
                 /\ r_station.result.extracted_location = locations[n].location
                 /\ r_station.result.location_type = locations[n].loc_type
                 /\ r_station.result.priority = locations[n].priority

\* C8 witness: the second candidate gave the first result and a third
\* candidate was left untried.
C8_Witness ==
    /\ RunIsLive /\ r_run.pc = "store"
    /\ r_station.result # NoRecord
    /\ Len(r_hist.tried) = 2
    /\ Len(r_station.locations) = 3
    /\ r_station.result.extracted_location = r_station.locations[2].location

(***************************************************************************)
(* Claims about the two deduplications                                     *)
(***************************************************************************)
\* C11: store deduplication is idempotent: remove_duplicates applied to its
\* own output returns that output, same records in the same order, and so
\* does _deduplicate_results applied to its own output.
C11_DeduplicationIdempotent ==
    cl_pc \in {"deduped", "fixed", "saved"} =>
        /\ remove_duplicates(cl_deduped) = cl_deduped
        /\ remove_duplicates(remove_duplicates(cl_loaded)) = remove_duplicates(cl_loaded)
        /\ _deduplicate_results(_deduplicate_results(cl_loaded)) =
              _deduplicate_results(cl_loaded)

\* C11 witness: both deduplications dropped a record of the loaded collection
\* and kept two.
C11_Witness ==
    /\ cl_pc = "deduped"
    /\ Len(cl_loaded) = 3
    /\ Len(cl_deduped) = 2
    /\ Len(_deduplicate_results(cl_loaded)) = 2

(***************************************************************************)
(* Claims about the reprocessing mode and the saved collection             *)
(***************************************************************************)
\* The reprocess file as fetch_stations_without_geo read it: no save comes
\* between the construction and the fetch.
ReprocessFileRead ==
    IF r_files.reprocess_is_output THEN r_hist.loaded_results ELSE r_files.reprocess

FlaggedForRegeocoding(item) == item.needs_regeocoding = "true"

\* The stations of a reprocessing run are the flagged records of the file.
ReprocessStationsAreTheFlagged ==
    (RunIsLive /\ r_reprocess /\ r_run.pc \notin {"constructed", "returned"}) =>
        LET flagged == SelectSeq(ReprocessFileRead, FlaggedForRegeocoding)
        IN /\ Len(r_run.stations) = Len(flagged)
           /\ \A j \in DOMAIN flagged :
                 /\ r_run.stations[j].uuid = flagged[j].uuid
                 /\ r_run.stations[j].name = flagged[j].name

\* A successful resolution in a reprocessing run writes the record over the
\* one with the station's uuid and leaves the rest of the collection alone.
ReprocessStoreInPlace ==
    (r_reprocess /\ r_run.pc = "store" /\ r_run'.pc = "mark" /\ r_station.result # NoRecord) =>
        /\ Len(r_results') = Len(r_results)
        /\ \E k \in DOMAIN r_results :
              /\ r_results[k].uuid = CurrentStation.uuid
              /\ r_results'[k] = r_station.result
        /\ \A k \in DOMAIN r_results :
              r_results[k].uuid # CurrentStation.uuid => r_results'[k] = r_results[k]

\* C12: in reprocessing mode the stations processed are exactly the records
\* of the reprocess file with needs_regeocoding true, and a successful
\* resolution overwrites the existing record with that uuid at its index: the
\* length of the collection and the records of other uuids are unchanged and
\* no record is appended.
C12_ReprocessUpdatesInPlace ==
    []ReprocessStationsAreTheFlagged /\ [][ReprocessStoreInPlace]_vars
\* The positions of the records of uuid in a collection.
PositionsOf(collection, uuid) == {k \in DOMAIN collection : collection[k].uuid = uuid}

\* w is the last record this run wrote for its uuid.
LastWrittenForUuid(w) ==
    \A v \in r_hist.written : v.rec.uuid = w.rec.uuid => v.i <= w.i

\* C13: when a station that already had a record in the collection is
\* resolved again, the collection written by the terminal save holds exactly
\* one record of that uuid, and it is the newly resolved one.
C13_NewRecordSupersedes ==
    (RunIsLive /\ r_run.pc = "done") =>
        \A w \in r_hist.written :
            (PositionsOf(r_hist.loaded_results, w.rec.uuid) # {} /\ LastWrittenForUuid(w)) =>
                /\ Cardinality(PositionsOf(r_files.output, w.rec.uuid)) = 1
                /\ w.rec \in Range(r_files.output)
\* C14: every collection the orchestrator writes to the output file, at a
\* checkpoint save or at the terminal save, has no two records of one uuid.
C14_SavedCollectionHasUniqueUuids ==
    (RunIsLive /\ r_hist.saved # "none") =>
        \A j, k \in DOMAIN r_files.output :
            r_files.output[j].uuid = r_files.output[k].uuid => j = k
\* The first position of a record of uuid in a collection.
FirstPositionOf(collection, uuid) ==
    CHOOSE k \in PositionsOf(collection, uuid) :
        \A m \in PositionsOf(collection, uuid) : k <= m

\* after holds, for each uuid of before, the first record of that uuid in
\* before and nothing else, in the order the kept records had in before.
KeepsFirstSeen(before, after) ==
    /\ \A k \in DOMAIN before :
          before[k].uuid # "" => Cardinality(PositionsOf(after, before[k].uuid)) = 1
    /\ \A j \in DOMAIN after :
          /\ PositionsOf(before, after[j].uuid) # {}
          /\ after[j] = before[FirstPositionOf(before, after[j].uuid)]
    /\ \A j, k \in DOMAIN after :
          j < k => FirstPositionOf(before, after[j].uuid) <
                   FirstPositionOf(before, after[k].uuid)

\* C15: the deduplication run before the terminal save keeps, for each uuid
\* of the result collection, exactly the first record of that uuid, and the
\* kept records stay in their original relative order.
C15_TerminalDedupKeepsFirstSeen ==
    [][r_run.pc = "final" => KeepsFirstSeen(r_results, r_results')]_vars

\* C15 witness: a terminal save whose deduplication dropped the record this
\* run appended behind the loaded record of the same uuid.
C15_Witness ==
    /\ RunIsLive /\ r_run.pc = "done" /\ ~r_reprocess
    /\ Len(r_results) >= 2
    /\ \E w \in r_hist.written :
          /\ w.rec \notin Range(r_results)
          /\ PositionsOf(r_results, w.rec.uuid) # {}

(***************************************************************************)
(* Claims about the resolver's cache and its choice of a feature           *)
(***************************************************************************)
\* The call recorded in c was for the triple (lowercased text, hint, category)
\* of the call recorded in d.
SameTriple(c, d) ==
    /\ Lower(c.location) = Lower(d.location)
    /\ c.country = d.country
    /\ c.place_type = d.place_type

\* The earlier requests for the triple of the call now being made that
\* returned a result.
StoredFor(call) ==
    {j \in DOMAIN g_requests :
        SameTriple(g_requests[j], call) /\ g_requests[j].result # NoResult}

\* C16: a geocode call whose triple was stored by an earlier successful call
\* returns that stored result, issues no request, does not sleep in the rate
\* limiter and leaves api_calls, last_reset and the cache unchanged.
C16_CacheHitShortCircuits ==
    [][(g_last'.called /\ g_last' # g_last /\ StoredFor(g_last') # {}) =>
          /\ \E j \in StoredFor(g_last') : g_last'.result = g_requests[j].result
          /\ g_last'.cache_hit /\ ~g_last'.slept
          /\ UNCHANGED <<g_cache, g_api_calls, g_last_reset, g_clock, g_requests>>]_vars

\* C16 witness: a call served from the cache, for the text of the storing
\* call in another case.
C16_Witness ==
    /\ g_last.called /\ g_last.cache_hit
    /\ g_last.location = "moscow"
    /\ \E j \in DOMAIN g_requests :
          /\ g_requests[j].location = "Moscow"
          /\ SameTriple(g_requests[j], g_last)
          /\ g_requests[j].result = g_last.result

\* C17: a call is served from the cache only by an entry stored for its own
\* triple: it never receives a result cached for another text, another
\* country hint or another category.
C17_CacheKeyedByTriple ==
    (g_last.called /\ g_last.cache_hit) =>
        \E j \in DOMAIN g_requests :
            SameTriple(g_requests[j], g_last) /\ g_requests[j].result = g_last.result
\* Feature k of the last response passed the country validation.
KeptFeature(k) ==
    country_match_of(g_last.response.features[k].place_name, g_last.country)

\* Feature k of the last response passed it and is of high confidence.
IdealFeature(k) ==
    /\ KeptFeature(k)
    /\ confidence_of(g_last.response.features[k].place_type, TRUE) = "high"

\* The least member of a non-empty set of positions.
Least(positions) == CHOOSE k \in positions : \A m \in positions : k <= m

\* C18: from the ordered features of a response geocode returns the first
\* country-matched feature of high confidence if there is one, evaluating no
\* feature after it; otherwise the first feature not discarded for country
\* mismatch; and no result when every feature was discarded or there is none.
\* (A feature that makes the scan raise is an error of the call.)
C18_FirstIdealElseFirstKept ==
    (g_last.called /\ ~g_last.cache_hit /\ g_last.response.ok) =>
        LET features == g_last.response.features
            ideal == {k \in DOMAIN features : IdealFeature(k)}
            kept == {k \in DOMAIN features : KeptFeature(k)}
            WellFormedUpTo(n) == \A k \in 1..n : ~IsMalformed(features[k])
        IN /\ (ideal # {} /\ WellFormedUpTo(Least(ideal))) =>
                 g_last.result = result_of(features[Least(ideal)], TRUE)
           /\ (ideal = {} /\ kept # {} /\ WellFormedUpTo(Len(features))) =>
                 g_last.result = result_of(features[Least(kept)], TRUE)
           /\ (kept = {} /\ WellFormedUpTo(Len(features))) => g_last.result = NoResult

\* C18 witness: the third feature, the first of high confidence, was returned
\* in the place of the first, which had passed the country validation.
C18_Witness ==
    /\ g_last.called /\ ~g_last.cache_hit /\ g_last.response.ok
    /\ Len(g_last.response.features) = 3
    /\ KeptFeature(1) /\ ~IdealFeature(1) /\ ~IdealFeature(2) /\ IdealFeature(3)
    /\ g_last.result = result_of(g_last.response.features[3], TRUE)

(***************************************************************************)
(* Claims about failures                                                   *)
(***************************************************************************)
\* The service failed to answer, or answered with a feature the scan cannot
\* read.
FailedResponse(response) ==
    \/ ~response.ok
    \/ response.features # <<>> /\ IsMalformed(response.features[1])

\* A geocode call that met a failure returned no result and cached nothing.
FailedCallReturnsNothing ==
    (g_last'.called /\ g_last' # g_last /\ ~g_last'.cache_hit
                    /\ FailedResponse(g_last'.response)) =>
        g_last'.result = NoResult /\ g_cache' = g_cache

\* The stations started so far are the first ones of the input list, each
\* once and in input order; a run that ended without an interrupt started
\* them all.
EveryStationAttemptedOnce ==
    RunIsLive =>
        /\ Len(r_hist.started) <= Len(r_run.stations)
        /\ \A j \in DOMAIN r_hist.started : r_hist.started[j] = r_run.stations[j].uuid
        /\ (r_run.pc \in {"done", "aborted"} /\ r_hist.interrupt_at = "none") =>
              Len(r_hist.started) = Len(r_run.stations)

\* C19: a network error, a bad status or a malformed response makes the one
\* geocode call return no result and add no cache entry, and does not stop
\* the batch: unless the run is interrupted every station of the input list
\* is attempted exactly once, in input order, whatever happened to the
\* stations before it.
C19_FailuresDoNotStopTheBatch ==
    [][FailedCallReturnsNothing]_vars /\ []EveryStationAttemptedOnce

(***************************************************************************)
(* Claims about backups                                                    *)
(***************************************************************************)
\* The cleanup pass copies the file before it rewrites it.
CleanupBacksUp == cl_file' # cl_file => cl_file \in cl_backups'

\* C20: every overwrite of an existing record collection, by the
\* orchestrator's checkpoint and terminal saves as by the cleanup pass, comes
\* after a backup copy of the file's prior contents was made.
C20_BackupBeforeEveryOverwrite ==
    [][/\ CleanupBacksUp
       /\ (r_files'.output # r_files.output /\ r_files.output # <<>>) =>
             r_files.output \in r_files'.backups]_vars

(***************************************************************************)
(* Claims about unreadable files                                           *)
(***************************************************************************)
\* C21: when the record collection or the progress checkpoint exists and
\* cannot be read, the run does not proceed: the orchestrator processes no
\* station and does not overwrite the unreadable file.
C21_NoRunOnUnreadableState ==
    (RunIsLive /\ r_hist.load_failed) =>
        /\ r_hist.started = <<>>
        /\ r_hist.saved = "none"
        /\ r_files.unreadable # {}

(***************************************************************************)
(* Claims about the repair pass                                            *)
(***************************************************************************)
\* The record the repair is said to make of a flagged record.
RepairedFormOf(station) ==
    [station EXCEPT
        !.latitude = NULL, !.longitude = NULL,
        !.mapbox_place_type = NULL, !.confidence = NULL,
        !.method = "pending_regeocoding",
        !.place_name = "NEEDS_REGEOCODING: " \o
            (IF station.extracted_location = ABSENT THEN ""
             ELSE station.extracted_location)]

\* C22: the repair pass repairs every record that has needs_regeocoding true
\* and a place_name that does not start with the sentinel: coordinates,
\* mapbox_place_type and confidence become null, method becomes
\* 'pending_regeocoding' and place_name the sentinel followed by the record's
\* extracted_location.
C22_RepairOfFlaggedRecords ==
    CleanupRepaired =>
        /\ Len(cl_stations) = Len(cl_deduped)
        /\ \A k \in DOMAIN cl_deduped :
              (/\ cl_deduped[k].needs_regeocoding = "true"
               /\ ~StartsWith(place_name_of(cl_deduped[k]), "NEEDS_REGEOCODING:")) =>
                  cl_stations[k] = RepairedFormOf(cl_deduped[k])

(***************************************************************************)
(* Claims about validate_geocoding_results.py, checked under SpecValidate  *)
(***************************************************************************)
\* Rule (a): a Russian-family country and a place name that names one of the
\* listed countries.
RussianElsewhere(record) ==
    /\ Contains(Lower(record.country), "russia")
    /\ \E c \in {"venezuela", "colombia", "brazil", "mexico", "argentina", "peru"} :
           Contains(Lower(record.place_name), c)

\* Rule (b): the extracted location is, up to case, a brand or genre word.
BrandWordExtracted(record) ==
    \E w \in {"pyramid", "plus", "europe", "radio", "hit", "music", "sport", "energy",
              "maximum", "classic", "jazz", "blues", "rock", "pop"} :
        Lower(record.extracted_location) = w

\* Rule (c): low confidence on a candidate of the potential tier.
LowOnPotential(record) ==
    record.confidence = "low" /\ record.location_type = "potential"

AnyRuleFires(record) ==
    RussianElsewhere(record) \/ BrandWordExtracted(record) \/ LowOnPotential(record)

\* The report or the fix pass has collected the problematic records.
ProblematicCollected ==
    \/ v_pc \in {"confirm", "fixing", "saved"}
    \/ v_pc = "done" /\ v_args.mode = "report"

ReExtractedCandidate(record) ==
    validator_extract_locations(record.name, record.country, record.state)[1].location

\* The pending form the fix pass writes.
InPendingFormOfFix(record) ==
    /\ record.latitude = NULL
    /\ record.longitude = NULL
    /\ record.needs_regeocoding = "true"
    /\ record.place_name = "NEEDS_REGEOCODING: " \o ReExtractedCandidate(record)
    /\ record.method = "pending_regeocoding"

\* C24: the collection the fix pass saves has the length of the collection
\* it loaded and the same uuid at every position, and every record that is
\* not the record loaded at its position is in the pending form.
C24_FixPassKeepsEveryRecord ==
    v_pc = "saved" =>
        /\ Len(v_file) = Len(v_hist.loaded)
        /\ \A k \in DOMAIN v_file :
               /\ k \in DOMAIN v_hist.loaded
               /\ v_file[k].uuid = v_hist.loaded[k].uuid
               /\ v_file[k] # v_hist.loaded[k] => InPendingFormOfFix(v_file[k])

\* A saved collection of two records, one rewritten and one left alone.
C24_Witness ==
    /\ v_pc = "saved"
    /\ Len(v_file) = 2
    /\ \E k \in DOMAIN v_file : v_file[k] # v_hist.loaded[k]
    /\ \E k \in DOMAIN v_file : v_file[k] = v_hist.loaded[k]

C26_ValidatorExtractsAsTheOrchestrator ==
    v_pc \in {"fixing", "saved"} =>
        \A j \in 1..(v_i - 1) :
            LET record == v_problematic[j] IN
            validator_extract_locations(record.name, record.country, record.state)
                = extract_locations(Station(record.uuid, record.name, record.country,
                                            record.state))

(***************************************************************************)
(* Claims about the call counter of the resolver, checked under SpecRate   *)
(***************************************************************************)
\* A step that issues a request.
IssuesRequest == Len(g_requests') = Len(g_requests) + 1

\* C28: api_calls never exceeds max_calls_per_minute, and a request issued
\* when api_calls equals max_calls_per_minute is issued after the window has
\* elapsed and the counter and the window start have been reset: it is the
\* first call of a window that starts at the time of the request, at least
\* 60 s after the start of the previous window.
C28_CounterNeverExceedsCeiling ==
    /\ [](g_api_calls <= MaxCallsPerMinute)
    /\ [][(g_api_calls = MaxCallsPerMinute /\ IssuesRequest) =>
              /\ g_api_calls' = 1
              /\ g_last_reset' = g_clock'
              /\ g_clock' - g_last_reset >= WindowSeconds]_vars

(***************************************************************************)
(* Claims about the summary of a run, checked under SpecRun                *)
(***************************************************************************)
\* C27: the counts logged at the end of a run are the actual ones: the total
\* is the number of stations the loop has iterated, also when the run was
\* interrupted; successes plus errors make up that number; the API calls
\* are the requests issued to the service during the run.
C27_ReportedCountsAreActual ==
    r_run.pc = "done" =>
        /\ r_hist.report.total_processed = Len(r_hist.started)
        /\ r_hist.report.successfully_geocoded + r_hist.report.errors
               = Len(r_hist.started)
        /\ r_hist.report.total_api_calls = Len(g_requests)

(***************************************************************************)
(* Claims about the extractor as a function, checked under SpecRun         *)
(***************************************************************************)
SameStationData(a, b) ==
    a.name = b.name /\ a.country = b.country /\ a.state = b.state

Bonus(condition, points) == IF condition THEN points ELSE 0

\* The score as the sum of the stated terms, the vowel bonus counted once.
StatedScore(word) ==
    LET lower == word_lower(word) IN
    10
    + Bonus(Len(word) >= 6, 3)
    + Bonus(char_isupper(word[1]), 2)
    + Bonus(has_two_of(lower, cyrillic_vowels) \/ has_two_of(lower, latin_vowels), 2)
    + Bonus(\E suffix \in place_suffixes : ends_with(lower, suffix), 5)
    - Bonus(lower \in common_words, 10)
    - Bonus(Len(word) = 3, 2)
    - Bonus(lower \in adjectives, 5)

\* C30: the score returned for a word is the sum of the stated terms, with
\* one bonus of 2 for two vowels of the Cyrillic set or two of the Latin
\* set, and every word returned as a potential place has a positive score.
C30_ScoreIsTheStatedSum ==
    /\ p_pc \in {"extract", "returned"} => p_score = StatedScore(p_word)
    /\ p_pc = "returned" =>
           \A k \in DOMAIN p_places : StatedScore(p_places[k]) > 0

(***************************************************************************)
(* Claims about the outcome of a reprocessing run, checked under SpecRun   *)
(***************************************************************************)
\* A settled record: coordinates, a resolved place name, no flag key.
SettledWithoutFlag(record) ==
    /\ record.latitude # NULL /\ record.longitude # NULL
    /\ ~StartsWith(record.place_name, SENTINEL)
    /\ record.needs_regeocoding = ABSENT

\* The reprocessing run has made its terminal save.
ReprocessingRunSaved == r_reprocess /\ r_run.pc = "done"

\* C31: after a reprocessing run every record that was flagged
\* needs_regeocoding when the run started is in the saved collection as it
\* was, or the collection holds a settled record of its uuid; and no saved
\* record has coordinates together with needs_regeocoding true.
C31_FlaggedRecordsKeptOrSettled ==
    ReprocessingRunSaved =>
        /\ \A k \in DOMAIN ReprocessFileRead :
               FlaggedForRegeocoding(ReprocessFileRead[k]) =>
                   \/ \E j \in DOMAIN r_files.output :
                          r_files.output[j] = ReprocessFileRead[k]
                   \/ \E j \in DOMAIN r_files.output :
                          /\ r_files.output[j].uuid = ReprocessFileRead[k].uuid
                          /\ SettledWithoutFlag(r_files.output[j])
        /\ \A j \in DOMAIN r_files.output :
               ~(r_files.output[j].latitude # NULL
                    /\ r_files.output[j].needs_regeocoding = "true")

(***************************************************************************)
(* Claims about the prior contents of the output file, checked under       *)
(* SpecRun                                                                 *)
(***************************************************************************)
\* The uuids that have a record in a collection.
UuidsOf(collection) == {collection[k].uuid : k \in DOMAIN collection}

\* C32: once a run has saved, at a checkpoint or at its end, every uuid that
\* had a record in the (readable) output file before the run has a record
\* in that file, whichever output path the run is configured with.
C32_PriorOutputIsKept ==
    (RunIsLive /\ r_hist.saved # "none" /\ ~r_hist.load_failed) =>
        UuidsOf(r_hist.prior_output) \subseteq UuidsOf(r_files.output)

NoCandidate(station) == ~extract_raises(station) /\ extract_locations(station) = <<>>

InStationTurn == r_run.pc \in {"extract", "store", "mark", "checkpoint", "sleep"}

\* C33: a station whose extraction yields no candidate makes no resolver call;
\* the run counts it as failed, marks its uuid processed, appends nothing and
\* goes on to the next station (every step of its turn that no interrupt cuts).
C33_NoCandidateStationFailsWithoutRequest ==
    [][(InStationTurn /\ NoCandidate(CurrentStation) /\ r_run'.pc # "final") =>
          /\ g_requests' = g_requests /\ g_api_calls' = g_api_calls
          /\ r_results' = r_results
          /\ r_run'.success_count = r_run.success_count
          /\ r_run.pc = "extract" =>
                 r_run'.pc = "store" /\ r_station'.result = NoRecord
          /\ r_run.pc = "store" =>
                 r_run'.pc = "mark" /\ r_run'.error_count = r_run.error_count + 1
          /\ r_run.pc = "mark" =>
                 r_run'.pc = "checkpoint" /\ CurrentStation.uuid \in r_processed'
          /\ r_run.pc = "checkpoint" => r_run'.pc = "sleep"
          /\ r_run.pc = "sleep" =>
                 r_run'.pc = "loop_head" /\ r_run'.i = r_run.i + 1]_vars

C33_Witness ==
    /\ r_run.pc = "loop_head" /\ r_run.i > 1
    /\ NoCandidate(r_run.stations[r_run.i - 1])
    /\ r_run.stations[r_run.i - 1].uuid \in r_processed
    /\ r_run.error_count >= 1 /\ r_results = <<>> /\ g_requests = <<>>

GeocodeStep == g_requests' # g_requests \/ g_last' # g_last

RepeatsFailedCall ==
    /\ g_last.called /\ g_last.result = NoResult
    /\ g_last'.location = g_last.location
    /\ g_last'.country = g_last.country
    /\ g_last'.place_type = g_last.place_type

\* C34: only successful resolutions are cached. A geocode call that returns
\* no result leaves the cache unchanged, and the call that follows it with
\* the same text, country hint and category is not served from the cache:
\* it goes through the rate limiter and issues a new request.
C34_FailuresAreNotCached ==
    /\ [](\A k \in DOMAIN g_cache : g_cache[k] # NoResult)
    /\ [][GeocodeStep =>
            /\ g_last'.result = NoResult => g_cache' = g_cache
            /\ RepeatsFailedCall =>
                 /\ ~g_last'.cache_hit
                 /\ Len(g_requests') = Len(g_requests) + 1
                 /\ g_api_calls' =
                      _rate_limit_check(g_api_calls, g_last_reset, g_clock, 0).api_calls + 1]_vars

C34_Witness ==
    /\ Len(g_requests) = 2
    /\ g_requests[1].result = NoResult
    /\ g_requests[2].location = g_requests[1].location
    /\ g_requests[2].country = g_requests[1].country
    /\ g_requests[2].place_type = g_requests[1].place_type
    /\ g_requests[2].result # NoResult
    /\ DOMAIN g_cache # {}

\* What the fix pass is to save for a loaded record: the record itself, or
\* its rewritten form when it is problematic and a candidate is re-extracted.
ExpectedAfterFix(record) ==
    LET fixed_station == fix_problematic_station(record, v_args.token, RunStartTime)
    IN IF is_problematic_station(record) /\ fixed_station # NoRecord
       THEN fixed_station
       ELSE record

DistinctUuids(collection) ==
    \A j, k \in DOMAIN collection : collection[j].uuid = collection[k].uuid => j = k

\* C35: the fix pass changes only problematic records. In the collection it
\* saves, every record that is not problematic stands unchanged at its
\* position, and every problematic record with a re-extracted candidate is
\* replaced at its own position, repeated uuids included.
C35_FixPassChangesOnlyProblematic ==
    v_pc = "saved" =>
        \A k \in DOMAIN v_hist.loaded :
            k \in DOMAIN v_file /\ v_file[k] = ExpectedAfterFix(v_hist.loaded[k])

\* Every record of `input` without an identifier is still in `output`, and
\* `output` has one record for each distinct uuid of `input`.
RemovesOnlyRepeats(input, output) ==
    /\ \A k \in DOMAIN input :
           input[k].uuid \in {"", ABSENT, NULL} =>
               \E j \in DOMAIN output : output[j] = input[k]
    /\ \A u \in UuidsOf(input) :
           Cardinality({j \in DOMAIN output : output[j].uuid = u}) = 1

\* C36: both deduplication passes remove only records that repeat an
\* identifier: a record whose uuid is missing or empty is still in the
\* output of remove_duplicates and of _deduplicate_results, and the output
\* has one record for each distinct uuid of the input.
C36_DeduplicationRemovesOnlyRepeats ==
    cl_pc = "deduped" =>
        /\ RemovesOnlyRepeats(cl_loaded, cl_deduped)
        /\ RemovesOnlyRepeats(cl_loaded, _deduplicate_results(cl_loaded))

SameIdentityFields(a, b) ==
    /\ a.uuid = b.uuid /\ a.name = b.name /\ a.country = b.country
    /\ a.needs_regeocoding = b.needs_regeocoding
    /\ a.extracted_location = b.extracted_location
    /\ a.timestamp = b.timestamp

\* C37: the repair pass keeps the number and the order of the records,
\* never changes uuid, name, country, needs_regeocoding, extracted_location
\* or timestamp, leaves a record whose flag is not true unchanged, and a
\* second application changes nothing.
C37_RepairIsFramedAndIdempotent ==
    CleanupRepaired =>
        /\ Len(cl_stations) = Len(cl_deduped)
        /\ \A k \in DOMAIN cl_stations :
               /\ SameIdentityFields(cl_stations[k], cl_deduped[k])
               /\ ~FlaggedForRegeocoding(cl_deduped[k]) => cl_stations[k] = cl_deduped[k]
        /\ fix_inconsistent_states(cl_stations) = cl_stations

\* A repaired collection with a record the pass rewrote and an unflagged
\* record it left alone.
C37_Witness ==
    /\ cl_pc = "fixed"
    /\ \E k \in DOMAIN cl_stations : cl_stations[k] # cl_deduped[k]
    /\ \E k \in DOMAIN cl_stations :
           ~FlaggedForRegeocoding(cl_deduped[k]) /\ cl_deduped[k].latitude # NULL

\* C38: a record the fix pass has put into the pending state is not
\* problematic for a following validation pass, so a second fix pass finds
\* none of them and rewrites none of them.
C38_FixedRecordsAreNotProblematic ==
    v_pc = "saved" =>
        \A k \in v_hist.rewritten :
            /\ k \in DOMAIN v_file
            /\ ~is_problematic_station(v_file[k])

====
